---- MODULE Spec2Model ----
(***************************************************************************)
(* Model of the Slack -> Obsidian synchronisation plugin (src/main.ts).    *)
(*                                                                         *)
(* Strings the code inspects character by character (message timestamps)   *)
(* are sequences of one-character strings.  A Slack ts is                  *)
(* "<seconds>.<fraction>" with a fixed number of fraction digits (six in   *)
(* production, two here); numbers are kept as exact fixed-point integers   *)
(* in units of the last fraction digit, which is what parseFloat and       *)
(* Number.prototype.toString compute for timestamps of this magnitude.     *)
(***************************************************************************)
EXTENDS Integers, Sequences, FiniteSets, TLC

VARIABLES
    settings,   \* this.settings, the in-memory settings object
    data,       \* what saveData last persisted (lastSyncTimestamps)
    files,      \* the vault: path -> document
    remote,     \* the Slack workspace: channel -> set of messages
    profiles,   \* the Slack workspace: user id -> the user's names
    clock,      \* ticks of the Slack workspace's clock (one per posted message)
    run,        \* per invocation of syncSlackMessages: its position and locals
    notices,    \* per invocation: the notices it has emitted
    calls,      \* per invocation: how many requests of each kind it has issued
    timer,      \* the plugin's interval timer: syncInterval field and live timers
    plugin,     \* the plugin outside its invocations: loaded or not, the
                \* saveSettings calls of the settings tab, the notices of
                \* onload and of the settings tab
    started,    \* how many times syncSlackMessages has been invoked
    posted      \* has a message been posted since the last invocation began

vars == <<settings, data, files, remote, profiles, clock, run, notices, calls, timer,
          plugin, started, posted>>

(***************************************************************************)
(* Bounds                                                                  *)
(***************************************************************************)
\* number of messages posted to the workspace over a behaviour
MaxClock == 2
\* number of invocations of syncSlackMessages over a behaviour
MaxSyncs == 2
\* number of changes made in the settings tab over a behaviour
MaxChanges == 2
\* ticks of the clock in the specifications of the channel-document
\* variant, which post to the configured channels only
MaxClockAppend == 3

(***************************************************************************)
(* Characters and strings                                                  *)
(***************************************************************************)
DigitChars == <<"0", "1", "2", "3", "4", "5", "6", "7", "8", "9">>

\* UTF-16 code unit of a character of a timestamp
CharCode(ch) ==
    IF ch = "." THEN 46
    ELSE 48 + (CHOOSE d \in 0..9 : DigitChars[d + 1] = ch)

IsDigit(ch) == \E d \in 0..9 : DigitChars[d + 1] = ch

DigitVal(ch) == CharCode(ch) - 48

\* decimal digits of a natural number, most significant first
RECURSIVE Digits(_)
Digits(n) ==
    IF n < 10 THEN <<DigitChars[n + 1]>>
    ELSE Digits(n \div 10) \o <<DigitChars[(n % 10) + 1]>>

\* the ts Slack assigns to a message posted at fixed-point time v
TsString(v) ==
    Digits(v \div 100) \o <<".">> \o
        <<DigitChars[((v % 100) \div 10) + 1], DigitChars[(v % 10) + 1]>>

\* time of the message posted at a clock tick
TsOf(tick) == TsString(100 + 25 * tick)

\* JavaScript's a > b on strings: lexicographic on code units, a proper
\* prefix is smaller
RECURSIVE StrGreater(_, _)
StrGreater(a, b) ==
    IF a = <<>> THEN FALSE
    ELSE IF b = <<>> THEN TRUE
    ELSE IF CharCode(Head(a)) # CharCode(Head(b))
         THEN CharCode(Head(a)) > CharCode(Head(b))
    ELSE StrGreater(Tail(a), Tail(b))

\* value of the leading run of digits of s, and what follows it
RECURSIVE ParseInt(_, _)
ParseInt(s, acc) ==
    IF s = <<>> \/ ~IsDigit(Head(s)) THEN <<acc, s>>
    ELSE ParseInt(Tail(s), 10 * acc + DigitVal(Head(s)))

\* parseFloat(s) for a string of digits with an optional fraction, as a
\* fixed-point integer (two fraction digits)
parseFloat(s) ==
    LET ip == ParseInt(s, 0)
        rest == ip[2]
        frac == IF rest # <<>> /\ Head(rest) = "." THEN Tail(rest) ELSE <<>>
        d1 == IF Len(frac) >= 1 /\ IsDigit(frac[1]) THEN DigitVal(frac[1]) ELSE 0
        d2 == IF Len(frac) >= 2 /\ IsDigit(frac[1]) /\ IsDigit(frac[2])
              THEN DigitVal(frac[2]) ELSE 0
    IN  100 * ip[1] + 10 * d1 + d2

\* Number.prototype.toString of a fixed-point value: the shortest decimal
\* that reads back as the same number, so trailing fraction zeros (and a
\* bare decimal point) are not printed
NumberToString(v) ==
    LET d1 == (v % 100) \div 10
        d2 == v % 10
    IN  Digits(v \div 100) \o
        (IF d1 = 0 /\ d2 = 0 THEN <<>>
         ELSE IF d2 = 0 THEN <<".", DigitChars[d1 + 1]>>
         ELSE <<".", DigitChars[d1 + 1], DigitChars[d2 + 1]>>)

\* String.prototype.replace('.', ''): drop the first decimal point
RECURSIVE RemoveDot(_)
RemoveDot(s) ==
    IF s = <<>> THEN <<>>
    ELSE IF Head(s) = "." THEN Tail(s)
    ELSE <<Head(s)>> \o RemoveDot(Tail(s))

\* largest element of a non-empty set of numbers
MathMax(S) == CHOOSE x \in S : \A y \in S : y <= x

Range(s) == {s[i] : i \in 1..Len(s)}

(***************************************************************************)
(* The configuration and the Slack workspace                               *)
(***************************************************************************)
\* DEFAULT_SETTINGS.channels
Channels == <<"general", "random">>

Users == {"U1", "U2"}

Providers == {"openai", "anthropic", "gemini"}

\* what a posted message can look like: author (absent for some bot
\* messages), the authors of its thread replies, its text (the texts of
\* the model are ASCII; Japanese words are written in Latin letters: "kore"
\* is the stop word U+3053 U+308C)
MsgShapes ==
    { [user |-> "U1", replies |-> <<"U1">>, text |-> "deploy done"],
      [user |-> "U2", replies |-> <<>>, text |-> "a"],
      [user |-> "",   replies |-> <<>>, text |-> "kore review please"] }

\* a message as conversations.history returns it, before the plugin
\* attaches userDisplayName and slackUrl to it
Msg(ts, shape) ==
    [ts |-> ts, user |-> shape.user, reply_count |-> Len(shape.replies),
     replies |-> shape.replies, text |-> shape.text,
     userDisplayName |-> "", slackUrl |-> <<>>]

\* the names of a user as users.info answers them (user.profile.display_name,
\* user.profile.real_name, user.name), any of them empty
Profile(display_name, real_name, name) ==
    [display_name |-> display_name, real_name |-> real_name, name |-> name]

\* how a users.info request for a user can end: thrown, ok: false, or
\* ok: true with the names of the user
UserOutcomes(userId) ==
    {[kind |-> k, user |-> Profile("", "", "")] : k \in {"throw", "notok"}}
    \cup {[kind |-> "ok", user |-> profiles[userId]]}

\* texts a text-generation backend may answer
Summaries ==
    { "## title: Project Kickoff \nkickoff held\ntags:\n  - alpha\n  - beta\n  - alpha\n" }

\* the text of every thread reply
ReplyText == "ok"

\* a second completion of an answer, never the one the plugin reads
OtherCompletion == "second choice"

\* more texts a backend may answer: headings with and without label,
\* with characters a file name cannot hold, longer than a title may be, or
\* below a deeper heading; tags in each of the four forms, repeated, mixed,
\* or with an item of white space only; texts with neither
SummaryCases ==
    { "## title: Project Kickoff \ntags:\n  - alpha\n  - beta\n",
      "## Weekly sync\n- point one\n- point two\n\ntags:\n  - ops\n  - ops\n  - infra\n",
      "## title\nRelease of the week\n#release #infra #release",
      "No heading here.\ntag: alpha, beta  gamma",
      "## Plan: Q3/Q4 <draft>?\nrelated: budget, hiring",
      "### Details\n## Release notes\n",
      "## Notes\ntags:\n  - alpha\n  -  \n",
      "## Notes\ntags:\n-alpha\n#beta",
      "## A heading that is much longer than the fifty characters a title keeps\n",
      "## Subtitle",
      " \n",
      "## Status\ntags: a, b",
      "plain text only",
      "## All\ntags:\n  - yaml\n#hash\ntag: line\nrelated: rel",
      "## Three\nsee #hash\ntag: line\nrelated: rel",
      "## Two\nTag: line\nrelated: rel",
      "## One\nRelated: rel",
      "tag:  ",
      "related: rel\ntag:  " }

\* messages for the texts above: with punctuation, with nothing a title
\* can be made of, with words longer than a title may be, with a reply
TextShapes ==
    { [user |-> "U1", replies |-> <<>>, text |-> "Hello, world! It's a test-case"],
      [user |-> "U2", replies |-> <<>>, text |-> "? !"],
      [user |-> "",   replies |-> <<>>, text |-> "a"],
      [user |-> "U1", replies |-> <<"U2">>, text |-> "kore review"],
      [user |-> "U2", replies |-> <<>>,
       text |-> "internationalization standardization committee"] }

\* DEFAULT_SETTINGS with a Slack token entered
BaseSettings ==
    [slackToken |-> "xoxb", channels |-> Channels, syncInterval |-> 24,
     outputFolder |-> "Slack", lastSyncTimestamps |-> <<>>,
     enableAISummary |-> FALSE, aiProvider |-> "openai", openaiApiKey |-> "",
     anthropicApiKey |-> "", geminiApiKey |-> "", autoSync |-> FALSE]

\* settings with AI summaries enabled for a provider, with or without its key
AiSettings(provider, key) ==
    [BaseSettings EXCEPT
        !.enableAISummary = TRUE,
        !.aiProvider = provider,
        !.openaiApiKey = IF provider = "openai" THEN key ELSE "",
        !.anthropicApiKey = IF provider = "anthropic" THEN key ELSE "",
        !.geminiApiKey = IF provider = "gemini" THEN key ELSE ""]

\* a workspace's users: the names of U1 and of U2
Workspace(p1, p2) == [u \in Users |-> IF u = "U1" THEN p1 ELSE p2]

\* the settings the plugin may be loaded with and the users of the
\* workspace it is connected to; over the workspaces every combination of
\* empty and non-empty names occurs
Boots ==
    { [settings |-> [BaseSettings EXCEPT !.slackToken = ""],
       profiles |-> Workspace(Profile("", "", ""), Profile("", "", ""))],
      [settings |-> BaseSettings,
       profiles |-> Workspace(Profile("", "Rea", "nam"), Profile("", "", ""))],
      [settings |-> [BaseSettings EXCEPT !.autoSync = TRUE],
       profiles |-> Workspace(Profile("Dis", "Rea", "nam"), Profile("", "", "nam"))],
      [settings |-> AiSettings("openai", ""),
       profiles |-> Workspace(Profile("Dis", "", ""), Profile("Dis", "", "nam"))],
      [settings |-> AiSettings("anthropic", "sk-ant"),
       profiles |-> Workspace(Profile("Dis", "Rea", ""), Profile("", "Rea", ""))] }

(***************************************************************************)
(* The interval timer                                                      *)
(***************************************************************************)
\* stopAutoSync
stopAutoSync(t) ==
    IF t.syncInterval # 0
    THEN [syncInterval |-> 0, active |-> t.active \ {t.syncInterval}]
    ELSE t

\* does startAutoSync (re)create the timer under settings st
AutoSyncOn(st) == st.autoSync /\ st.syncInterval > 0

\* the notices with the one startAutoSync raises when it creates the timer
AutoSyncNotice(st, nt) ==
    IF AutoSyncOn(st)
    THEN Append(nt, "Auto sync enabled: every " \o ToString(st.syncInterval) \o " hours")
    ELSE nt

\* startAutoSync: the timer state it leaves
startAutoSync(st, t) ==
    IF AutoSyncOn(st)
    THEN LET stopped == stopAutoSync(t)
             id == CHOOSE n \in 1..(Cardinality(stopped.active) + 1) :
                       n \notin stopped.active
         IN  [syncInterval |-> id, active |-> stopped.active \cup {id}]
    ELSE t

\* concurrent invocations of syncSlackMessages the model keeps apart
Runs == {1, 2}

\* a map with one key set (Map.set, obj[key] = value)
Put(map, k, v) ==
    [x \in (DOMAIN map) \cup {k} |-> IF x = k THEN v ELSE map[x]]

\* an array without its repeated elements, first occurrences kept
\* ([...new Set(array)])
RECURSIVE Dedupe(_)
Dedupe(s) ==
    IF s = <<>> THEN <<>>
    ELSE LET front == Dedupe(SubSeq(s, 1, Len(s) - 1))
             x == s[Len(s)]
         IN  IF x \in Range(front) THEN front ELSE Append(front, x)

\* array.join(sep) of an array of strings
RECURSIVE Join(_, _)
Join(ws, sep) ==
    IF ws = <<>> THEN ""
    ELSE IF Len(ws) = 1 THEN ws[1]
    ELSE ws[1] \o sep \o Join(Tail(ws), sep)

\* s.substring(0, n)
Substring(s, n) ==
    IF Len(s) <= n THEN s ELSE SubSeq(s, 1, n)

\* no users.info answer received yet
NoAnswer ==
    [userId |-> "",
     outcome |-> [kind |-> "", user |-> Profile("", "", "")]]

\* no text-generation request made yet
NoAiAnswer == [kind |-> "", status |-> 0, completions |-> <<>>]

\* positions and locals of an invocation that is not running
IdleRun ==
    [pc |-> "idle", ci |-> 0, last |-> <<>>, newMessages |-> <<>>,
     workspaceUrl |-> "", userIds |-> <<>>, userInfoMap |-> <<>>,
     mi |-> 0, threadMessages |-> <<>>, threadUserIds |-> <<>>,
     threadUserInfoMap |-> <<>>, saving |-> <<>>, path |-> <<>>,
     markdown |-> <<>>, aiSummary |-> "",
     \* bookkeeping of the model, not read by the program:
     quiet |-> FALSE,          \* the invocation before ended in success and
                               \* nothing was posted since it began
     threadFailed |-> FALSE,   \* the replies request of this message failed
     aiFailed |-> FALSE,       \* the summary of this message failed
     threadLookups |-> [u \in Users |-> 0],
                               \* users.info requests of this thread
     answer |-> NoAnswer,      \* the users.info answer syncChannel received
                               \* last, and for which id
     received |-> <<>>,        \* newMessages in the order the request
                               \* answered them
     requested |-> <<>>,       \* the hosts the summary of this message has
                               \* sent a request to
     aiAnswer |-> NoAiAnswer]  \* how the summary request of this message
                               \* ended

\* what one channel cycle has done: requests issued by kind (users: the
\* users.info requests of syncChannel, threadUsers: those of
\* createMessageFile), the watermark of the channel when the invocation
\* and then the cycle began, the ts of the messages whose document it has
\* written, and how it ended ("returned", "threw")
NoCalls ==
    [history |-> 0, team |-> 0, users |-> [u \in Users |-> 0],
     threadUsers |-> [u \in Users |-> 0],
     replies |-> 0, ai |-> 0, write |-> 0, restarts |-> 0,
     before |-> <<>>, written |-> {}, outcome |-> ""]

\* the plugin loaded with settings st (onload: loadSettings, startAutoSync)
\* in a workspace with users ws whose channels hold the messages posted
\* up to now
Loaded(st, ws, messages, now) ==
    /\ settings = st
    /\ profiles = ws
    /\ data = settings
    /\ files = <<>>
    /\ remote = messages
    /\ clock = now
    /\ run = [r \in Runs |-> IdleRun]
    /\ notices = [r \in Runs |-> <<>>]
    /\ calls = [r \in Runs |-> [i \in 1..Len(Channels) |-> NoCalls]]
    /\ timer = startAutoSync(settings, [syncInterval |-> 0, active |-> {}])
    /\ plugin = [loaded |-> TRUE, saving |-> <<>>, changes |-> 0,
                 notices |-> AutoSyncNotice(settings, <<>>)]
    /\ started = 0
    /\ posted = FALSE

\* the plugin loaded in a workspace where nothing was posted yet
onload(st, ws) == Loaded(st, ws, [c \in Range(Channels) |-> {}], 0)

Init == \E boot \in Boots : onload(boot.settings, boot.profiles)

(***************************************************************************)
(* Strings of the summary and of the message texts, character by character *)
(***************************************************************************)
\* s.charAt(i - 1), "" past the end
At(s, i) == IF i >= 1 /\ i <= Len(s) THEN SubSeq(s, i, i) ELSE ""

\* s.substring(i - 1, j - 1): the characters at positions i .. j - 1
Slice(s, i, j) == SubSeq(s, i, j - 1)

UpperCase == "ABCDEFGHIJKLMNOPQRSTUVWXYZ"
LowerCase == "abcdefghijklmnopqrstuvwxyz"
DigitsAndUnderscore == "0123456789_"

\* the characters of a string as a set
CharsOf(s) == {SubSeq(s, i, i) : i \in 1..Len(s)}

\* \w of a regular expression; the texts of the model are ASCII, so the
\* ranges of Japanese characters some classes add to \w match nothing more
WordChars == CharsOf(UpperCase) \cup CharsOf(LowerCase) \cup CharsOf(DigitsAndUnderscore)

\* \s of a regular expression
SpaceChars == {" ", "\n", "\t"}

\* the lower-case form of each upper-case letter
LowerOfLetter ==
    [c \in CharsOf(UpperCase) |->
        LET k == CHOOSE i \in 1..Len(UpperCase) : SubSeq(UpperCase, i, i) = c
        IN  SubSeq(LowerCase, k, k)]

\* s.toLowerCase(): how a pattern with the i flag reads s
RECURSIVE LowerOf(_)
LowerOf(s) ==
    IF s = "" THEN ""
    ELSE (IF SubSeq(s, 1, 1) \in DOMAIN LowerOfLetter
          THEN LowerOfLetter[SubSeq(s, 1, 1)] ELSE SubSeq(s, 1, 1))
         \o LowerOf(SubSeq(s, 2, Len(s)))

\* the literal word stands at position i of s
StartsAt(s, i, word) ==
    /\ i >= 1
    /\ i + Len(word) - 1 <= Len(s)
    /\ SubSeq(s, i, i + Len(word) - 1) = word

\* the same for a word that a colon follows, letters compared without
\* case (the i flag of a pattern)
LabelAt(s, i, label) ==
    /\ i >= 1
    /\ i + Len(label) <= Len(s)
    /\ SubSeq(s, i + Len(label), i + Len(label)) = ":"
    /\ LowerOf(SubSeq(s, i, i + Len(label) - 1)) = label

\* the first position from i on whose character is not in the class
\* (Len(s) + 1 when there is none): where a greedy class+ or class* ends
RECURSIVE SkipIn(_, _, _)
SkipIn(s, i, class) ==
    IF i > Len(s) \/ SubSeq(s, i, i) \notin class THEN i
    ELSE SkipIn(s, i + 1, class)

\* the first position from i on whose character is in the class
RECURSIVE SkipTo(_, _, _)
SkipTo(s, i, class) ==
    IF i > Len(s) \/ SubSeq(s, i, i) \in class THEN i
    ELSE SkipTo(s, i + 1, class)

\* the end of the line position i is on: where [^\n]+ and .+ stop
LineEnd(s, i) == SkipTo(s, i, {"\n"})

\* s.trim()
RECURSIVE TrimEnd(_)
TrimEnd(s) ==
    IF s # "" /\ SubSeq(s, Len(s), Len(s)) \in SpaceChars
    THEN TrimEnd(SubSeq(s, 1, Len(s) - 1)) ELSE s

Trim(s) == TrimEnd(SubSeq(s, SkipIn(s, 1, SpaceChars), Len(s)))

\* s.replace(/[class]/g, by)
RECURSIVE ReplaceEach(_, _, _)
ReplaceEach(s, class, by) ==
    IF s = "" THEN ""
    ELSE (IF SubSeq(s, 1, 1) \in class THEN by ELSE SubSeq(s, 1, 1))
         \o ReplaceEach(SubSeq(s, 2, Len(s)), class, by)

\* s.replace(/[class]+/g, by)
RECURSIVE ReplaceRuns(_, _, _)
ReplaceRuns(s, class, by) ==
    IF s = "" THEN ""
    ELSE IF SubSeq(s, 1, 1) \in class
         THEN by \o ReplaceRuns(SubSeq(s, SkipIn(s, 1, class), Len(s)), class, by)
         ELSE SubSeq(s, 1, 1) \o ReplaceRuns(SubSeq(s, 2, Len(s)), class, by)

\* s.split(/[class]+/): the pieces between the runs, empty ones at the two
\* ends included
RECURSIVE Split(_, _)
Split(s, class) ==
    LET e == SkipTo(s, 1, class)
    IN  IF e > Len(s) THEN <<s>>
        ELSE <<SubSeq(s, 1, e - 1)>>
             \o Split(SubSeq(s, SkipIn(s, e, class), Len(s)), class)

\* the smallest and the largest of a set of positions, 0 for the empty set
First(positions) ==
    IF positions = {} THEN 0
    ELSE CHOOSE k \in positions : \A j \in positions : k <= j

Last(positions) ==
    IF positions = {} THEN 0
    ELSE CHOOSE k \in positions : \A j \in positions : j <= k

\* \s*[^\n]+ from position i on with the white space ending at position w:
\* [^\n]+ starts there when a character follows, else on the last character
\* of the white space that is not a line break (the pattern gives white
\* space back); 0 when the pattern does not match
RestFrom(s, i, w) ==
    IF w <= Len(s) THEN w
    ELSE Last({k \in i..Len(s) : SubSeq(s, k, k) # "\n"})

\* where \s*[^\n]+ starting at position i puts the start of [^\n]+
RestOfLine(s, i) == RestFrom(s, i, SkipIn(s, i, SpaceChars))

(***************************************************************************)
(* Pure functions of createMessageFile and the markdown generation         *)
(***************************************************************************)
\* the label a summary heading may carry before or after the title (the
\* katakana label of the patterns cannot occur in an ASCII text)
TitleLabel == "title"

\* the characters a file name cannot hold: [<>:"/\\|?*]
IllegalChars == {"<", ">", ":", "\"", "/", "\\", "|", "?", "*"}

\* the group of /## (.+?)(?:\n|$)/ for a match at position i: the rest of
\* the line; "" for i = 0, no match
HeadingAt(aiSummary, i) ==
    IF i = 0 THEN "" ELSE Slice(aiSummary, i + 3, LineEnd(aiSummary, i + 3))

\* aiSummary.match(/## (.+?)(?:\n|$)/)[1]: the rest of the line after the
\* first "## " that a character other than a line break follows; "" when
\* the pattern does not match
HeadingMatch(aiSummary) ==
    HeadingAt(aiSummary,
              First({i \in 1..Len(aiSummary) :
                        /\ StartsAt(aiSummary, i, "## ")
                        /\ At(aiSummary, i + 3) \notin {"", "\n"}}))

\* rawTitle.replace(/^(title)[:\s]*/, '')
StripFront(rawTitle) ==
    IF StartsAt(rawTitle, 1, TitleLabel)
    THEN SubSeq(rawTitle, SkipIn(rawTitle, Len(TitleLabel) + 1, SpaceChars \cup {":"}),
                Len(rawTitle))
    ELSE rawTitle

\* rawTitle.replace(/(title)$/, '')
StripBack(rawTitle) ==
    IF StartsAt(rawTitle, Len(rawTitle) - Len(TitleLabel) + 1, TitleLabel)
    THEN SubSeq(rawTitle, 1, Len(rawTitle) - Len(TitleLabel))
    ELSE rawTitle

\* the title kept when it is not empty and not the label itself
UsableTitle(cleanTitle) ==
    IF Len(cleanTitle) > 0 /\ cleanTitle # TitleLabel THEN cleanTitle ELSE ""

\* title extraction of createMessageFile: the heading trimmed, the label
\* taken off both ends, trimmed, the illegal characters removed, white
\* space made underscores, cut to 50 characters; "" when the summary gives
\* no usable title
ExtractTitle(aiSummary) ==
    UsableTitle(
        Substring(
            ReplaceRuns(
                ReplaceEach(Trim(StripBack(StripFront(Trim(HeadingMatch(aiSummary))))),
                            IllegalChars, ""),
                SpaceChars, "_"),
            50))

\* the position after a line break at position e, else e: \n?
AfterBreak(s, e) == IF At(s, e) = "\n" THEN e + 1 ELSE e

\* [^\n]+\n? from position rest on; 0 for rest = 0
ItemRest(s, rest) == IF rest = 0 THEN 0 ELSE AfterBreak(s, LineEnd(s, rest))

\* -\s*[^\n]+\n? with the dash at position dash, 0 when there is none
ItemFrom(s, dash) ==
    IF At(s, dash) # "-" THEN 0 ELSE ItemRest(s, RestOfLine(s, dash + 1))

\* one item \s*-\s*[^\n]+\n? of the tags block starting at position i:
\* the position after it, 0 when there is no item
ItemEnd(s, i) == ItemFrom(s, SkipIn(s, i, SpaceChars))

\* (?: item)+ from position i on: the position after the last item
RECURSIVE ItemsEnd(_, _)
ItemsOn(s, i, e) == IF e = 0 THEN i ELSE ItemsEnd(s, e)

ItemsEnd(s, i) == ItemsOn(s, i, ItemEnd(s, i))

\* "tags:" stands at position i, white space with a line break follows,
\* and then an item
OpensBlock(s, i) ==
    /\ LabelAt(s, i, "tags")
    /\ \E k \in (i + 5)..(SkipIn(s, i + 5, SpaceChars) - 1) : At(s, k) = "\n"
    /\ ItemEnd(s, i + 5) # 0

\* the items after the "tags:" at position i; "" for i = 0
BlockFrom(s, i) ==
    IF i = 0 THEN ""
    ELSE Slice(s, SkipIn(s, i + 5, SpaceChars), ItemsEnd(s, i + 5))

\* aiSummary.match(/tags:\s*\n((?:\s*-\s*[^\n]+\n?)+)/i)[1]: the items of
\* the first "tags:" that opens a block; "" when the pattern does not match
TagsBlock(aiSummary) ==
    BlockFrom(aiSummary, First({i \in 1..Len(aiSummary) : OpensBlock(aiSummary, i)}))

\* block.match(/- ([^\n]+)/g).map(tag => tag.replace('- ', '').trim()):
\* what follows each "- " up to the end of its line, trimmed
RECURSIVE YamlTags(_, _)
YamlTags(block, i) ==
    IF i > Len(block) THEN <<>>
    ELSE IF StartsAt(block, i, "- ") /\ At(block, i + 2) \notin {"", "\n"}
         THEN <<Trim(Slice(block, i + 2, LineEnd(block, i + 2)))>>
              \o YamlTags(block, LineEnd(block, i + 2))
         ELSE YamlTags(block, i + 1)

\* Array.from(aiSummary.matchAll(/#([\w...]+)/g)).map(match => match[1]):
\* the word after each "#" that a word character follows
RECURSIVE Hashtags(_, _)
Hashtags(s, i) ==
    IF i > Len(s) THEN <<>>
    ELSE IF At(s, i) = "#" /\ At(s, i + 1) \in WordChars
         THEN <<Slice(s, i + 1, SkipIn(s, i + 1, WordChars))>>
              \o Hashtags(s, SkipIn(s, i + 1, WordChars))
         ELSE Hashtags(s, i + 1)

\* where the group of /(?:label)[:]\s*([^\n]+)/i starts for a match at
\* position i; 0 for i = 0
GroupAt(s, label, i) == IF i = 0 THEN 0 ELSE RestOfLine(s, i + Len(label) + 1)

\* aiSummary.match(/(?:label)[:]\s*([^\n]+)/i): 0 when the pattern does
\* not match, else the position its group starts at
LabeledLine(aiSummary, label) ==
    GroupAt(aiSummary, label,
            First({i \in 1..Len(aiSummary) :
                      /\ LabelAt(aiSummary, i, label)
                      /\ RestOfLine(aiSummary, i + Len(label) + 1) # 0}))

\* matches[1].split(/[,\s]+/).filter(tag => tag.trim().length > 0) of a
\* labeled line whose group starts at position i; [] for i = 0
LabeledTags(aiSummary, i) ==
    IF i = 0 THEN <<>>
    ELSE SelectSeq(Split(Slice(aiSummary, i, LineEnd(aiSummary, i)),
                         SpaceChars \cup {","}),
                   LAMBDA tag : Len(Trim(tag)) > 0)

\* LaterPatterns with the "tag:" line tried before the hashtags
LaterPatternsLabelFirst(aiSummary, hashtags, tagLine) ==
    IF tagLine # 0 THEN LabeledTags(aiSummary, tagLine)
    ELSE IF hashtags # <<>> THEN hashtags
    ELSE LabeledTags(aiSummary, LabeledLine(aiSummary, "related"))

\* the loop over tagPatterns after the tags block gave no tag: hashtags,
\* else the "tag:" line when there is one, else the "related:" line
LaterPatterns(aiSummary, hashtags, tagLine) ==
    IF hashtags # <<>> THEN hashtags
    ELSE IF tagLine # 0 THEN LabeledTags(aiSummary, tagLine)
    ELSE LabeledTags(aiSummary, LabeledLine(aiSummary, "related"))

\* the loop over tagPatterns, left at the first pattern that sets
\* extractedTags: the tags block when it lists a tag
FirstPattern(aiSummary, yamlTags) ==
    IF yamlTags # <<>> THEN yamlTags
    ELSE LaterPatterns(aiSummary, Hashtags(aiSummary, 1), LabeledLine(aiSummary, "tag"))

\* tag extraction of createMessageFile
ExtractTags(aiSummary) ==
    FirstPattern(aiSummary, YamlTags(TagsBlock(aiSummary), 1))

\* every text a summary request of the model is answered with
SummaryTexts == Summaries \cup SummaryCases \cup {OtherCompletion, ""}

\* ExtractTitle of the texts of the model, each title extracted once
Titles == [aiSummary \in SummaryTexts |-> ExtractTitle(aiSummary)]

\* ExtractTags of the texts of the model, each list extracted once
TagLists == [aiSummary \in SummaryTexts |-> ExtractTags(aiSummary)]

\* ExtractTitle, looked up for a text of the model
TitleOf(aiSummary) ==
    IF aiSummary \in SummaryTexts THEN Titles[aiSummary]
    ELSE ExtractTitle(aiSummary)

\* ExtractTags, looked up for a text of the model
TagsOf(aiSummary) ==
    IF aiSummary \in SummaryTexts THEN TagLists[aiSummary]
    ELSE ExtractTags(aiSummary)

\* s.replace(/[^class]/g, by)
RECURSIVE ReplaceOthers(_, _, _)
ReplaceOthers(s, class, by) ==
    IF s = "" THEN ""
    ELSE (IF SubSeq(s, 1, 1) \in class THEN SubSeq(s, 1, 1) ELSE by)
         \o ReplaceOthers(SubSeq(s, 2, Len(s)), class, by)

\* the stop words of generateFallbackTitle, in Latin letters
StopWords ==
    {"desu", "masu", "shita", "suru", "dearu", "datta", "naru", "aru",
     "iru", "koto", "mono", "tame", "node", "kedo", "demo", "shikashi",
     "soshite", "mata", "sarani", "sore", "kore", "are", "dore", "sono",
     "kono", "ano", "dono", "kara", "made", "yori"}

\* TitleWords with two words kept instead of three
TitleWordsFirstTwo(words) ==
    IF Len(words) > 0
    THEN Substring(Join(SubSeq(words, 1, IF Len(words) < 2 THEN Len(words) ELSE 2), "_"),
                   30)
    ELSE ""

\* generateFallbackTitle from the joined message texts on: the characters
\* that are neither word characters nor white space made spaces, the text
\* split at white space, the words of one character and the stop words
\* dropped, the first three words joined by underscores, cut to 30
\* characters; "" when no word is left
TitleWords(words) ==
    IF Len(words) > 0
    THEN Substring(Join(SubSeq(words, 1, IF Len(words) < 3 THEN Len(words) ELSE 3), "_"),
                   30)
    ELSE ""

FallbackTitleOfText(allText) ==
    TitleWords(SelectSeq(SelectSeq(Split(ReplaceOthers(allText, WordChars \cup SpaceChars, " "),
                                         SpaceChars),
                                   LAMBDA word : Len(word) > 1),
                         LAMBDA word : word \notin StopWords))

\* the texts of the messages of the model
MessageTexts == {shape.text : shape \in MsgShapes \cup TextShapes} \cup {ReplyText}

\* what the texts of up to n messages join to
RECURSIVE JoinedTexts(_)
JoinedTexts(n) ==
    IF n <= 1 THEN MessageTexts
    ELSE JoinedTexts(n - 1)
         \cup {allText \o " " \o text : allText \in JoinedTexts(n - 1), text \in MessageTexts}

\* the joined texts of a thread or of the batch of a channel cycle
BatchTexts == JoinedTexts(MaxClockAppend)

\* FallbackTitleOfText of these, each title made once
FallbackTitles == [allText \in BatchTexts |-> FallbackTitleOfText(allText)]

\* FallbackTitleOfText, looked up for a text of the model
FallbackTitleOf(allText) ==
    IF allText \in BatchTexts THEN FallbackTitles[allText]
    ELSE FallbackTitleOfText(allText)

generateFallbackTitle(messages) ==
    IF messages = <<>> THEN ""
    ELSE FallbackTitleOf(Join([i \in 1..Len(messages) |-> messages[i].text], " "))

\* message.userDisplayName || message.user || 'Unknown'
UserName(message) ==
    IF message.userDisplayName # "" THEN message.userDisplayName
    ELSE IF message.user # "" THEN message.user
    ELSE "Unknown"

\* SlackUrl with the ts used as it is, decimal point included
SlackUrlKeepsPoint(workspaceUrl, channelName, ts) ==
    <<workspaceUrl, "archives", channelName, <<"p">> \o ts>>

\* the permalink of a message
SlackUrl(workspaceUrl, channelName, ts) ==
    <<workspaceUrl, "archives", channelName, <<"p">> \o RemoveDot(ts)>>

\* generateSingleMessageMarkdown: the document as its parts; slack_url and
\* tags are <<>> when the frontmatter has no such key, summary is ""
\* when there is no summary block
generateSingleMessageMarkdown(messages, aiSummary, extractedTags, workspaceUrl, channelName) ==
    LET uniqueTags == IF Len(extractedTags) > 0 THEN Dedupe(extractedTags) ELSE <<>>
    IN  [slack_url |->
            IF workspaceUrl # "" /\ channelName # "" /\ Len(messages) > 0
               /\ messages[1].ts # <<>>
            THEN SlackUrl(workspaceUrl, channelName, messages[1].ts)
            ELSE <<>>,
         tags |-> uniqueTags,
         summary |-> aiSummary,
         messages |->
            [i \in 1..Len(messages) |->
                [heading |-> IF i = 1 THEN "##" ELSE "###",
                 ts |-> messages[i].ts,
                 userName |-> UserName(messages[i]),
                 text |-> messages[i].text]]]

(***************************************************************************)
(* syncSlackMessages and syncChannel, one action per awaited call          *)
(***************************************************************************)
\* this.settings.lastSyncTimestamps[channelName] || '0'
LastSyncTimestamp(channelName) ==
    LET m == settings.lastSyncTimestamps
    IN  IF channelName \in DOMAIN m /\ m[channelName] # <<>>
        THEN m[channelName] ELSE <<"0">>

\* the new position, counters and notices of invocation r
Commit(r, rec, cl, nt) ==
    /\ run' = [run EXCEPT ![r] = rec]
    /\ calls' = [calls EXCEPT ![r] = cl]
    /\ notices' = [notices EXCEPT ![r] = nt]

\* Fail with the try/catch inside the for loop: the error is reported and
\* the loop goes on to the next channel
FailAndContinue(r, i, cl, nt, message) ==
    LET threw == [cl EXCEPT ![i].outcome = "threw"]
        told == Append(nt, "Error during Slack sync: " \o message)
    IN  IF i >= Len(settings.channels)
        THEN Commit(r, IdleRun, threw, told)
        ELSE Commit(r,
                    [IdleRun EXCEPT !.pc = "history", !.ci = i + 1,
                                    !.last = LastSyncTimestamp(settings.channels[i + 1])],
                    [threw EXCEPT ![i + 1].history = @ + 1],
                    told)

\* syncChannel throws for the channel at position i: the catch block of
\* syncSlackMessages
Fail(r, i, cl, nt, message) ==
    Commit(r, IdleRun, [cl EXCEPT ![i].outcome = "threw"],
           Append(nt, "Error during Slack sync: " \o message))

\* NextChannel with a success notice after every channel
NextChannelReportsEach(r, i, quiet, cl, nt) ==
    LET returned == IF i > 1 THEN [cl EXCEPT ![i - 1].outcome = "returned"] ELSE cl
        told == IF i > 1 THEN Append(nt, "Slack sync completed successfully!") ELSE nt
    IN  IF i > Len(settings.channels)
        THEN Commit(r, IdleRun, returned, told)
        ELSE Commit(r,
                    [IdleRun EXCEPT !.pc = "history", !.ci = i,
                                    !.last = LastSyncTimestamp(settings.channels[i]),
                                    !.quiet = quiet],
                    [returned EXCEPT ![i].history = @ + 1,
                                     ![i].before = LastSyncTimestamp(settings.channels[i])],
                    told)

\* one turn of the for loop of syncSlackMessages: syncChannel up to its
\* history request, or the success notice when the loop is over
NextChannel(r, i, quiet, cl, nt) ==
    LET returned == IF i > 1 THEN [cl EXCEPT ![i - 1].outcome = "returned"] ELSE cl
    IN  IF i > Len(settings.channels)
        THEN Commit(r, IdleRun, returned,
                    Append(nt, "Slack sync completed successfully!"))
        ELSE Commit(r,
                    [IdleRun EXCEPT !.pc = "history", !.ci = i,
                                    !.last = LastSyncTimestamp(settings.channels[i]),
                                    !.quiet = quiet],
                    [returned EXCEPT ![i].history = @ + 1,
                                     ![i].before = LastSyncTimestamp(settings.channels[i])],
                    nt)

\* syncSlackMessages up to its first awaited call
syncSlackMessages(r) ==
    /\ started < MaxSyncs
    /\ started' = started + 1
    /\ posted' = FALSE
    /\ run[r].pc = "idle"
    /\ \A q \in Runs : q < r => run[q].pc # "idle"
    /\ LET fresh == [i \in 1..Len(settings.channels) |->
                        [NoCalls EXCEPT !.before =
                            LastSyncTimestamp(settings.channels[i])]]
           quiet == /\ ~posted
                    /\ \E q \in Runs :
                          /\ notices[q] # <<>>
                          /\ notices[q][Len(notices[q])] = "Slack sync completed successfully!"
       IN  IF settings.slackToken = ""
           THEN Commit(r, IdleRun, fresh,
                       <<"Please set your Slack token in settings">>)
           ELSE NextChannel(r, 1, quiet, fresh, <<"Starting Slack sync...">>)
    /\ UNCHANGED <<settings, data, files, remote, profiles, clock, timer, plugin>>

\* messages by descending ts
RECURSIVE NewestFirst(_)
NewestFirst(S) ==
    IF S = {} THEN <<>>
    ELSE LET m == CHOOSE x \in S : \A y \in S : parseFloat(y.ts) <= parseFloat(x.ts)
         IN  <<m>> \o NewestFirst(S \ {m})

\* the page conversations.history answers for limit=50&oldest=...: the
\* newest messages after oldest; a server that includes the boundary also
\* returns the message at oldest
HistoryPage(channelName, oldest, inclusive) ==
    LET after == {m \in remote[channelName] :
                     \/ parseFloat(m.ts) > parseFloat(oldest)
                     \/ inclusive /\ parseFloat(m.ts) = parseFloat(oldest)}
        sorted == NewestFirst(after)
    IN  SubSeq(sorted, 1, IF Len(sorted) < 50 THEN Len(sorted) ELSE 50)

\* msg.ts > lastSyncTimestamp
IsNewMessage(msg, lastSyncTimestamp) == StrGreater(msg.ts, lastSyncTimestamp)

\* the history request throws, or answers ok: false
HistoryFails(r) ==
    /\ run[r].pc = "history"
    /\ \E message \in {"Request failed",
                       "Failed to fetch messages from "
                           \o settings.channels[run[r].ci] \o ": channel_not_found"} :
           Fail(r, run[r].ci, calls[r], notices[r], message)
    /\ UNCHANGED <<settings, data, files, remote, profiles, clock, timer, plugin, started, posted>>

\* HistoryResponse fetching again after a full page: the request is
\* repeated once before the page is used
HistoryResponseFetchesAgain(r) ==
    /\ run[r].pc = "history"
    /\ \E inclusive \in BOOLEAN :
        LET rec == run[r]
            messages == HistoryPage(settings.channels[rec.ci], rec.last, inclusive)
            newMessages == SelectSeq(messages, LAMBDA msg : IsNewMessage(msg, rec.last))
        IN  IF Len(messages) = 50 /\ calls[r][rec.ci].history < 2
            THEN Commit(r, rec, [calls[r] EXCEPT ![rec.ci].history = @ + 1], notices[r])
            ELSE IF Len(messages) = 0 \/ Len(newMessages) = 0
            THEN NextChannel(r, rec.ci + 1, rec.quiet, calls[r], notices[r])
            ELSE Commit(r, [rec EXCEPT !.pc = "team", !.newMessages = newMessages],
                        [calls[r] EXCEPT ![rec.ci].team = @ + 1], notices[r])
    /\ UNCHANGED <<settings, data, files, remote, profiles, clock, timer, plugin, started, posted>>

\* the history request answers ok: true
HistoryResponse(r) ==
    /\ run[r].pc = "history"
    /\ \E inclusive \in BOOLEAN :
        LET rec == run[r]
            messages == HistoryPage(settings.channels[rec.ci], rec.last, inclusive)
            newMessages == SelectSeq(messages, LAMBDA msg : IsNewMessage(msg, rec.last))
        IN  IF Len(messages) = 0 \/ Len(newMessages) = 0
            THEN NextChannel(r, rec.ci + 1, rec.quiet, calls[r], notices[r])
            ELSE Commit(r, [rec EXCEPT !.pc = "team", !.newMessages = newMessages],
                        [calls[r] EXCEPT ![rec.ci].team = @ + 1], notices[r])
    /\ UNCHANGED <<settings, data, files, remote, profiles, clock, timer, plugin, started, posted>>

\* UserIdsOf without the Set: one id per message that has a user
UserIdsOfEveryMessage(messages) ==
    SelectSeq([i \in 1..Len(messages) |-> messages[i].user], LAMBDA u : u # "")

\* the user ids of messages, each once, messages without a user skipped
UserIdsOf(messages) ==
    Dedupe(SelectSeq([i \in 1..Len(messages) |-> messages[i].user],
                     LAMBDA u : u # ""))

\* ResolveDisplayName with the user name tried before the real name
ResolveDisplayNameUserNameFirst(userData, userId) ==
    IF userData.display_name # "" THEN userData.display_name
    ELSE IF userData.name # "" THEN userData.name
    ELSE IF userData.real_name # "" THEN userData.real_name
    ELSE userId

\* display name of a users.info answer: display name, real name, user name
\* or the id, the first that is not empty
ResolveDisplayName(userData, userId) ==
    IF userData.display_name # "" THEN userData.display_name
    ELSE IF userData.real_name # "" THEN userData.real_name
    ELSE IF userData.name # "" THEN userData.name
    ELSE userId

\* what a users.info request leaves in the map
LookedUp(map, userId, outcome) ==
    IF outcome.kind = "ok"
    THEN Put(map, userId, ResolveDisplayName(outcome.user, userId))
    ELSE Put(map, userId, userId)

\* messages with userDisplayName and slackUrl attached (the forEach after
\* the lookups)
Enrich(messages, map, workspaceUrl, channelName) ==
    [i \in 1..Len(messages) |->
        LET msg == messages[i]
        IN  [msg EXCEPT
                !.userDisplayName =
                    IF msg.user # ""
                    THEN (IF msg.user \in DOMAIN map /\ map[msg.user] # ""
                          THEN map[msg.user] ELSE msg.user)
                    ELSE @,
                !.slackUrl =
                    IF workspaceUrl # "" /\ msg.ts # <<>>
                    THEN SlackUrl(workspaceUrl, channelName, msg.ts)
                    ELSE @]]

\* Math.max(...newMessages.map(msg => parseFloat(msg.ts))).toString()
NewestTimestamp(newMessages) ==
    NumberToString(MathMax({parseFloat(newMessages[i].ts) : i \in 1..Len(newMessages)}))

\* DocumentTitle with the fallback title taken before the title of the
\* summary
DocumentTitleFallbackFirst(aiTitle, fallbackTitle, synthesized) ==
    IF fallbackTitle # "" THEN fallbackTitle
    ELSE IF aiTitle # "" THEN aiTitle
    ELSE synthesized

\* the title of the document: the title of the summary if (!documentTitle)
\* finds set, otherwise fallbackTitle || `${userName}_${hours}${minutes}`
DocumentTitle(aiTitle, fallbackTitle, synthesized) ==
    IF aiTitle # "" THEN aiTitle
    ELSE IF fallbackTitle # "" THEN fallbackTitle
    ELSE synthesized

\* generateAISummary and the rest of createMessageFile up to the awaited
\* vault write, given the summary text
IssueWrite(r, rec, aiSummary, cl, nt) ==
    LET message == rec.newMessages[rec.mi]
        channelName == settings.channels[rec.ci]
        seconds == parseFloat(message.ts) \div 100
        dateString == ToString(seconds \div 86400)
        hours == (seconds \div 3600) % 24
        minutes == (seconds \div 60) % 60
        summarized == settings.enableAISummary /\ Len(Trim(aiSummary)) > 0
        aiTitle == IF summarized THEN TitleOf(aiSummary) ELSE ""
        extractedTags == IF summarized THEN TagsOf(aiSummary) ELSE <<>>
        fallbackTitle == generateFallbackTitle(rec.threadMessages)
        documentTitle ==
            DocumentTitle(aiTitle, fallbackTitle,
                          UserName(message) \o "_" \o ToString(hours) \o ToString(minutes))
        filePath == <<settings.outputFolder, dateString \o "_" \o documentTitle \o ".md">>
        markdown == generateSingleMessageMarkdown(rec.threadMessages, aiSummary,
                        extractedTags, rec.workspaceUrl, channelName)
    IN  Commit(r, [rec EXCEPT !.pc = "write", !.path = filePath, !.markdown = markdown],
               [cl EXCEPT ![rec.ci].write = @ + 1], nt)

\* how a text-generation request can end: thrown by requestUrl (transport
\* error), or answered with a status and a list of completions (choices,
\* content, candidates)
AiOutcomes ==
    {[kind |-> "throw", status |-> 0, completions |-> <<>>]}
    \cup {[kind |-> "answer", status |-> 500, completions |-> <<>>],
          [kind |-> "answer", status |-> 200, completions |-> <<>>]}
    \cup {[kind |-> "answer", status |-> st, completions |-> <<s, OtherCompletion>>] :
             st \in {200, 201}, s \in Summaries}

\* the key check of a backend fails: no request is made
NoKey == [kind |-> "nokey", status |-> 0, completions |-> <<>>]

\* CallBackend reading the last completion instead of the first
CallBackendLastCompletion(outcome) ==
    IF outcome.kind # "answer" \/ outcome.status # 200
       \/ Len(outcome.completions) = 0
    THEN [threw |-> TRUE, text |-> ""]
    ELSE [threw |-> FALSE, text |-> outcome.completions[Len(outcome.completions)]]

\* callOpenAI, callAnthropic, callGemini from the key check on: an error
\* for a missing key, a thrown request, a status other than 200 or an
\* answer without completions, otherwise the text of the first completion
CallBackend(outcome) ==
    IF outcome.kind = "nokey" THEN [threw |-> TRUE, text |-> ""]
    ELSE IF outcome.kind = "throw" THEN [threw |-> TRUE, text |-> ""]
    ELSE IF outcome.status # 200 THEN [threw |-> TRUE, text |-> ""]
    ELSE IF Len(outcome.completions) = 0 THEN [threw |-> TRUE, text |-> ""]
    ELSE [threw |-> FALSE, text |-> outcome.completions[1]]

\* CallProvider with the catch block returning the error message as the
\* summary text
CallProviderReturnsError(outcome) ==
    IF ~CallBackend(outcome).threw THEN CallBackend(outcome).text
    ELSE "error"

\* the call of the configured backend as generateAISummary sees it: the
\* text it returns, or '' for the error generateAISummary catches
CallProvider(outcome) ==
    IF CallBackend(outcome).threw THEN "" ELSE CallBackend(outcome).text

\* the host of the endpoint each backend sends its request to
Backend(provider) ==
    IF provider = "openai" THEN "api.openai.com"
    ELSE IF provider = "anthropic" THEN "api.anthropic.com"
    ELSE "generativelanguage.googleapis.com"

\* the API key of the configured provider
ApiKey(st) ==
    IF st.aiProvider = "openai" THEN st.openaiApiKey
    ELSE IF st.aiProvider = "anthropic" THEN st.anthropicApiKey
    ELSE st.geminiApiKey

\* Summarize without the enableAISummary check: a summary is requested
\* whenever the provider has a key
SummarizeIgnoresSwitch(r, rec, cl, nt) ==
    IF settings.aiProvider \notin Providers \/ ApiKey(settings) = ""
    THEN IssueWrite(r, rec, "", cl, nt)
    ELSE Commit(r, [rec EXCEPT !.pc = "ai",
                               !.requested = Append(@, Backend(settings.aiProvider))],
                [cl EXCEPT ![rec.ci].ai = @ + 1], nt)

\* the summary step of createMessageFile: generateAISummary up to the
\* request of callOpenAI, callAnthropic or callGemini; a missing key is
\* thrown before any request and caught by generateAISummary
Summarize(r, rec, cl, nt) ==
    IF ~settings.enableAISummary
    THEN IssueWrite(r, rec, "", cl, nt)
    ELSE IF settings.aiProvider \notin Providers
    THEN IssueWrite(r, rec, "", cl, nt)
    ELSE IF ApiKey(settings) = ""
    THEN IssueWrite(r, [rec EXCEPT !.aiFailed = TRUE, !.aiAnswer = NoKey],
                    CallProvider(NoKey), cl,
                    Append(nt, "AI Summary failed"))
    ELSE Commit(r, [rec EXCEPT !.pc = "ai",
                               !.requested = Append(@, Backend(settings.aiProvider))],
                [cl EXCEPT ![rec.ci].ai = @ + 1], nt)

\* the thread lookups of createMessageFile: the next users.info request,
\* or the names attached and on to the summary
ThreadUsersLoop(r, rec, cl, nt) ==
    IF rec.threadUserIds # <<>>
    THEN Commit(r, [rec EXCEPT !.pc = "tuser",
                               !.threadLookups[Head(rec.threadUserIds)] = @ + 1],
                [cl EXCEPT ![rec.ci].threadUsers[Head(rec.threadUserIds)] = @ + 1], nt)
    ELSE Summarize(r,
                   [rec EXCEPT !.threadMessages =
                        Enrich(@, rec.threadUserInfoMap, rec.workspaceUrl,
                               settings.channels[rec.ci])],
                   cl, nt)

\* one turn of the for loop over newMessages: createMessageFile up to its
\* first awaited call; after the last message syncChannel returns
NextMessage(r, rec, j, cl, nt) ==
    IF j > Len(rec.newMessages)
    THEN NextChannel(r, rec.ci + 1, rec.quiet, cl, nt)
    ELSE LET message == rec.newMessages[j]
             at == [rec EXCEPT !.mi = j, !.threadMessages = <<message>>,
                               !.threadUserIds = <<>>, !.threadUserInfoMap = <<>>,
                               !.threadFailed = FALSE, !.aiFailed = FALSE,
                               !.threadLookups = [u \in Users |-> 0],
                               !.requested = <<>>, !.aiAnswer = NoAiAnswer]
         IN  IF message.reply_count > 0
             THEN Commit(r, [at EXCEPT !.pc = "thread"],
                         [cl EXCEPT ![rec.ci].replies = @ + 1], nt)
             ELSE Summarize(r, at, cl, nt)

\* the user lookups of syncChannel: the next users.info request, or, after
\* the last one, the names attached, the watermark set and saveSettings
\* called
UsersLoop(r, rec, cl, nt) ==
    IF rec.userIds # <<>>
    THEN /\ Commit(r, [rec EXCEPT !.pc = "user"],
                   [cl EXCEPT ![rec.ci].users[Head(rec.userIds)] = @ + 1], nt)
         /\ UNCHANGED settings
    ELSE LET channelName == settings.channels[rec.ci]
             newMessages == Enrich(rec.newMessages, rec.userInfoMap,
                                   rec.workspaceUrl, channelName)
             st == [settings EXCEPT !.lastSyncTimestamps =
                        Put(@, channelName, NewestTimestamp(newMessages))]
         IN  /\ settings' = st
             /\ Commit(r, [rec EXCEPT !.pc = "save", !.newMessages = newMessages,
                                      !.saving = st],
                       cl, nt)

\* TeamResponse with a retry: a team.info request that fails is sent again
TeamResponseRetries(r) ==
    /\ run[r].pc = "team"
    /\ calls[r][run[r].ci].team < 3
    /\ Commit(r, run[r], [calls[r] EXCEPT ![run[r].ci].team = @ + 1], notices[r])
    /\ UNCHANGED <<settings, data, files, remote, profiles, clock, timer, plugin, started,
                   posted>>

\* the team.info request ends: thrown, ok: false, or ok: true
TeamResponse(r) ==
    /\ run[r].pc = "team"
    /\ \E outcome \in {"throw", "notok", "ok"} :
        LET rec == run[r]
        IN  UsersLoop(r,
                      [rec EXCEPT
                          !.workspaceUrl = IF outcome = "ok"
                                           THEN "https://acme.slack.com" ELSE "",
                          !.userIds = UserIdsOf(rec.newMessages),
                          !.userInfoMap = <<>>],
                      calls[r], notices[r])
    /\ UNCHANGED <<data, files, remote, profiles, clock, timer, plugin, started, posted>>

\* a users.info request of syncChannel ends
UserResponse(r) ==
    /\ run[r].pc = "user"
    /\ \E outcome \in UserOutcomes(Head(run[r].userIds)) :
        LET rec == run[r]
        IN  UsersLoop(r,
                      [rec EXCEPT
                          !.userInfoMap = LookedUp(@, Head(rec.userIds), outcome),
                          !.userIds = Tail(@),
                          !.answer = [userId |-> Head(rec.userIds),
                                      outcome |-> outcome]],
                      calls[r], notices[r])
    /\ UNCHANGED <<data, files, remote, profiles, clock, timer, plugin, started, posted>>

\* saveSettings inside syncChannel ends: the settings are on disk,
\* startAutoSync has run, and the loop over newMessages begins
SaveDone(r) ==
    /\ run[r].pc = "save"
    /\ data' = run[r].saving
    /\ timer' = startAutoSync(settings, timer)
    /\ LET rec == run[r]
           on == AutoSyncOn(settings)
       IN  NextMessage(r, [rec EXCEPT !.saving = <<>>, !.answer = NoAnswer], 1,
                       IF on THEN [calls[r] EXCEPT ![rec.ci].restarts = @ + 1]
                       ELSE calls[r],
                       AutoSyncNotice(settings, notices[r]))
    /\ UNCHANGED <<settings, files, remote, profiles, clock, started, posted, plugin>>

\* what conversations.replies answers for a root message: the root as the
\* API holds it, then its replies in time order
ThreadOf(root) ==
    <<[root EXCEPT !.userDisplayName = "", !.slackUrl = <<>>]>> \o
    [k \in 1..Len(root.replies) |->
        Msg(TsString(parseFloat(root.ts) + k),
            [user |-> root.replies[k], replies |-> <<>>, text |-> ReplyText])]

\* ThreadFails without the try/catch around the replies request: the error
\* leaves createMessageFile
ThreadFailsThrows(r) ==
    /\ run[r].pc = "thread"
    /\ Fail(r, run[r].ci, calls[r], notices[r], "Request failed")
    /\ UNCHANGED <<settings, data, files, remote, profiles, clock, timer, plugin, started, posted>>

\* the replies request throws, answers ok: false, or answers without a
\* message list: the document keeps the root message alone
ThreadFails(r) ==
    /\ run[r].pc = "thread"
    /\ \E outcome \in {"throw", "notok", "nomessages"} :
           Summarize(r, [run[r] EXCEPT !.threadFailed = TRUE], calls[r], notices[r])
    /\ UNCHANGED <<settings, data, files, remote, profiles, clock, timer, plugin, started, posted>>

\* the replies request answers ok: true with the thread
ThreadResponse(r) ==
    /\ run[r].pc = "thread"
    /\ LET rec == run[r]
            threadMessages == ThreadOf(rec.newMessages[rec.mi])
        IN  ThreadUsersLoop(r,
                            [rec EXCEPT !.threadMessages = threadMessages,
                                        !.threadUserIds = UserIdsOf(threadMessages),
                                        !.threadUserInfoMap = <<>>],
                            calls[r], notices[r])
    /\ UNCHANGED <<settings, data, files, remote, profiles, clock, timer, plugin, started, posted>>

\* a users.info request of createMessageFile ends
ThreadUserResponse(r) ==
    /\ run[r].pc = "tuser"
    /\ \E outcome \in UserOutcomes(Head(run[r].threadUserIds)) :
        LET rec == run[r]
        IN  ThreadUsersLoop(r,
                            [rec EXCEPT
                                !.threadUserInfoMap =
                                    LookedUp(@, Head(rec.threadUserIds), outcome),
                                !.threadUserIds = Tail(@)],
                            calls[r], notices[r])
    /\ UNCHANGED <<settings, data, files, remote, profiles, clock, timer, plugin, started, posted>>

\* the text-generation request ends; generateAISummary catches every
\* error, raises a notice and returns ''
AiAnswered(r, keep, outcomes) ==
    /\ run[r].pc = "ai"
    /\ \E outcome \in outcomes :
        IssueWrite(r, [run[r] EXCEPT !.aiFailed = CallBackend(outcome).threw,
                                     !.aiAnswer = IF keep THEN outcome ELSE @],
                   CallProvider(outcome), calls[r],
                   IF CallBackend(outcome).threw
                   THEN Append(notices[r], "AI Summary failed")
                   ELSE notices[r])
    /\ UNCHANGED <<settings, data, files, remote, profiles, clock, timer, plugin, started, posted>>

\* the text-generation request of createMessageFile ends
AiResponse(r) == AiAnswered(r, FALSE, AiOutcomes)

\* the same step, the answer kept in aiAnswer for the properties about it
AiResponseKept(r) == AiAnswered(r, TRUE, AiOutcomes)

\* vault.adapter.write ends: the document replaces whatever the path held
WriteDone(r) ==
    /\ run[r].pc = "write"
    /\ files' = Put(files, run[r].path, run[r].markdown)
    /\ LET rec == run[r]
       IN  NextMessage(r, [rec EXCEPT !.path = <<>>, !.markdown = <<>>],
                       rec.mi + 1,
                       [calls[r] EXCEPT ![rec.ci].written =
                            @ \cup {rec.newMessages[rec.mi].ts}],
                       notices[r])
    /\ UNCHANGED <<settings, data, remote, profiles, clock, timer, plugin, started, posted>>

\* vault.adapter.write throws: the error leaves createMessageFile and
\* syncChannel and reaches the catch block of syncSlackMessages
WriteFails(r) ==
    /\ run[r].pc = "write"
    /\ Fail(r, run[r].ci, calls[r], notices[r], "write failed")
    /\ UNCHANGED <<settings, data, files, remote, profiles, clock, timer, plugin, started, posted>>

\* somebody posts a message to a channel
PostMessage ==
    /\ clock < MaxClock
    /\ \E c \in Range(Channels), shape \in MsgShapes :
           remote' = [remote EXCEPT ![c] = @ \cup {Msg(TsOf(clock + 1), shape)}]
    /\ clock' = clock + 1
    /\ UNCHANGED <<settings, data, files, profiles, run, notices, calls, timer, plugin,
                   started>>
    /\ posted' = TRUE

\* a sync is started (ribbon icon, command or interval timer) while no
\* other one is running
StartSync ==
    /\ \A q \in Runs : run[q].pc = "idle"
    /\ \E r \in Runs : syncSlackMessages(r)

Step(r) ==
    \/ HistoryFails(r)
    \/ HistoryResponse(r)
    \/ TeamResponse(r)
    \/ UserResponse(r)
    \/ SaveDone(r)
    \/ ThreadFails(r)
    \/ ThreadResponse(r)
    \/ ThreadUserResponse(r)
    \/ AiResponse(r)
    \/ WriteDone(r)
    \/ WriteFails(r)

Next ==
    \/ PostMessage
    \/ StartSync
    \/ \E r \in Runs : Step(r)

Spec == Init /\ [][Next]_vars

\* the plugin loaded with AI summaries enabled: every provider, with and
\* without its API key
AiConfigs == {AiSettings(provider, key) : provider \in Providers, key \in {"", "key"}}

InitAI ==
    \E st \in AiConfigs :
        onload(st, Workspace(Profile("", "Rea", "nam"), Profile("", "", "")))

SpecAI == InitAI /\ [][Next]_vars

\* the plugin loaded without a token, with auto sync, or with summaries by
\* Anthropic, in a workspace where a message was posted to the first channel
\* and then one to the second
InitLive ==
    \E boot \in {b \in Boots : \/ b.settings.slackToken = ""
                               \/ b.settings.autoSync
                               \/ ApiKey(b.settings) # ""} :
        \E s1 \in MsgShapes, s2 \in MsgShapes :
            Loaded(boot.settings, boot.profiles,
                   [c \in Range(Channels) |->
                       IF c = Channels[1] THEN {Msg(TsOf(1), s1)}
                       ELSE {Msg(TsOf(2), s2)}],
                   MaxClock)

\* syncs started and their awaited calls answered, nothing posted meanwhile
NextLive ==
    \/ StartSync
    \/ \E r \in Runs : Step(r)

\* an invocation is at an awaited call
Running == \E r \in Runs : run[r].pc # "idle"

\* every awaited request of a running invocation eventually returns or
\* throws (requestUrl and the vault calls settle their promises): weak
\* fairness of the answers, WF_vars(\E r \in Runs : Step(r)), written out
\* with Running for the enabling condition, since at every position of
\* syncChannel one of the answers of Step is possible
AnswersArrive == []<>(~Running) \/ []<><<\E r \in Runs : Step(r)>>_vars

SpecLive == InitLive /\ [][NextLive]_vars /\ AnswersArrive

\* the plugin loaded for one channel with every provider, with and without
\* its API key, and with summaries switched off while a key is still stored
BackendConfigs ==
    {[st EXCEPT !.channels = <<"general">>] : st \in AiConfigs}
    \cup {[AiSettings("openai", "key") EXCEPT !.channels = <<"general">>,
                                             !.enableAISummary = FALSE]}

InitBackends ==
    \E st \in BackendConfigs :
        onload(st, Workspace(Profile("", "Rea", "nam"), Profile("", "", "")))

StepBackends(r) ==
    \/ HistoryFails(r)
    \/ HistoryResponse(r)
    \/ TeamResponse(r)
    \/ UserResponse(r)
    \/ SaveDone(r)
    \/ ThreadFails(r)
    \/ ThreadResponse(r)
    \/ ThreadUserResponse(r)
    \/ AiResponseKept(r)
    \/ WriteDone(r)
    \/ WriteFails(r)

NextBackends ==
    \/ PostMessage
    \/ StartSync
    \/ \E r \in Runs : StepBackends(r)

SpecBackends == InitBackends /\ [][NextBackends]_vars

(***************************************************************************)
(* The channel-document variant of syncChannel (src/unnamed/part_000): one *)
(* document per channel cycle, appended to when its path already exists    *)
(***************************************************************************)
\* array.reverse(): the elements in the opposite order
Reverse(s) == [i \in 1..Len(s) |-> s[Len(s) + 1 - i]]

\* a part of a channel document: the frontmatter (text: its tags), a summary
\* (text: the summary), the rule "---", or a message section (text: the
\* text of the message); text is a list in each of them
Block(kind, ts, userName, link, text) ==
    [kind |-> kind, ts |-> ts, userName |-> userName, link |-> link, text |-> text]

\* the "---" line with the blank lines around it
Rule == Block("rule", <<>>, "", <<>>, <<>>)

\* getDateString(): the day of the sync; every run of the model falls on
\* one day
getDateString == "20240101"

\* generateMessagesMarkdown: one section per message of the array after
\* messages.reverse(), with the link when the message has a slackUrl
\* (the array itself is left reversed: see the actions calling this)
generateMessagesMarkdown(messages) ==
    LET reversed == Reverse(messages)
    IN  [i \in 1..Len(reversed) |->
            Block("message", reversed[i].ts, UserName(reversed[i]),
                  reversed[i].slackUrl, <<reversed[i].text>>)]

\* generateMarkdown: frontmatter with the distinct tags, the summary and a
\* rule when there is a summary, then the message sections
generateMarkdown(channelName, messages, aiSummary, extractedTags) ==
    LET uniqueTags == IF Len(extractedTags) > 0 THEN Dedupe(extractedTags) ELSE <<>>
    IN  <<Block("frontmatter", <<>>, "", <<>>, uniqueTags)>>
        \o (IF aiSummary # ""
            THEN <<Block("summary", <<>>, "", <<>>, <<aiSummary>>), Rule>>
            ELSE <<>>)
        \o generateMessagesMarkdown(messages)

\* UpdatedContent replacing the document: the previous content is dropped
UpdatedContentReplaces(existingContent, aiSummary, newMessagesMarkdown) ==
    IF settings.enableAISummary /\ aiSummary # ""
    THEN <<Block("summary", <<>>, "", <<>>, <<aiSummary>>), Rule>> \o newMessagesMarkdown
    ELSE <<Rule>> \o newMessagesMarkdown

\* updatedContent of syncChannel: the existing content, the summary when
\* summaries are enabled and there is one, the rule, the new sections
UpdatedContent(existingContent, aiSummary, newMessagesMarkdown) ==
    IF settings.enableAISummary /\ aiSummary # ""
    THEN existingContent \o <<Block("summary", <<>>, "", <<>>, <<aiSummary>>), Rule>>
             \o newMessagesMarkdown
    ELSE existingContent \o <<Rule>> \o newMessagesMarkdown

\* syncChannel from the title to the exists request: title and tags from
\* the summary or the fallback title, the path, generateMarkdown (which
\* leaves newMessages reversed)
IssueExists(r, rec, aiSummary, cl, nt) ==
    LET channelName == settings.channels[rec.ci]
        fallbackTitle == generateFallbackTitle(rec.newMessages)
        summarized == settings.enableAISummary /\ Len(Trim(aiSummary)) > 0
        aiTitle == IF summarized THEN TitleOf(aiSummary) ELSE ""
        documentTitle ==
            IF summarized
            THEN IF aiTitle # "" THEN getDateString \o "_" \o aiTitle
                 ELSE getDateString \o "_slack_" \o channelName
            ELSE IF fallbackTitle # "" THEN getDateString \o "_" \o fallbackTitle
            ELSE getDateString \o "_slack_" \o channelName
        extractedTags == IF summarized THEN TagsOf(aiSummary) ELSE <<>>
        filePath == <<settings.outputFolder, documentTitle \o ".md">>
        markdown == generateMarkdown(channelName, rec.newMessages, aiSummary,
                                     extractedTags)
    IN  Commit(r, [rec EXCEPT !.pc = "exists", !.path = filePath,
                              !.markdown = markdown, !.aiSummary = aiSummary,
                              !.received = rec.newMessages,
                              !.newMessages = Reverse(rec.newMessages)],
               cl, nt)

\* generateAISummary up to the request of the configured provider; a
\* missing key is thrown before any request and caught
SummarizeChannel(r, rec, cl, nt) ==
    IF ~settings.enableAISummary
    THEN IssueExists(r, rec, "", cl, nt)
    ELSE IF settings.aiProvider \notin Providers
    THEN IssueExists(r, rec, "", cl, nt)
    ELSE IF ApiKey(settings) = ""
    THEN IssueExists(r, [rec EXCEPT !.aiFailed = TRUE],
                     CallProvider(NoKey), cl,
                     Append(nt, "AI Summary failed"))
    ELSE Commit(r, [rec EXCEPT !.pc = "ai",
                               !.requested = Append(@, Backend(settings.aiProvider))],
                [cl EXCEPT ![rec.ci].ai = @ + 1], nt)

\* saveSettings inside syncChannel ends: the settings are on disk,
\* startAutoSync has run, and the summary step begins
SaveDoneChannel(r) ==
    /\ run[r].pc = "save"
    /\ data' = run[r].saving
    /\ timer' = startAutoSync(settings, timer)
    /\ LET rec == run[r]
           on == AutoSyncOn(settings)
       IN  SummarizeChannel(r, [rec EXCEPT !.saving = <<>>, !.answer = NoAnswer],
                            IF on THEN [calls[r] EXCEPT ![rec.ci].restarts = @ + 1]
                            ELSE calls[r],
                            AutoSyncNotice(settings, notices[r]))
    /\ UNCHANGED <<settings, files, remote, profiles, clock, started, posted, plugin>>

\* the text-generation request ends
AiResponseChannel(r) ==
    /\ run[r].pc = "ai"
    /\ \E outcome \in AiOutcomes :
        IssueExists(r, [run[r] EXCEPT !.aiFailed = CallBackend(outcome).threw],
                    CallProvider(outcome), calls[r],
                    IF CallBackend(outcome).threw
                    THEN Append(notices[r], "AI Summary failed")
                    ELSE notices[r])
    /\ UNCHANGED <<settings, data, files, remote, profiles, clock, timer, plugin, started, posted>>

\* vault.adapter.exists answers: on to the read of the existing document,
\* or to vault.create
ExistsResponse(r) ==
    /\ run[r].pc = "exists"
    /\ LET rec == run[r]
       IN  IF rec.path \in DOMAIN files
           THEN Commit(r, [rec EXCEPT !.pc = "read"], calls[r], notices[r])
           ELSE Commit(r, [rec EXCEPT !.pc = "create"],
                       [calls[r] EXCEPT ![rec.ci].write = @ + 1], notices[r])
    /\ UNCHANGED <<settings, data, files, remote, profiles, clock, timer, plugin, started, posted>>

\* vault.adapter.read answers the existing content: generateMessagesMarkdown
\* is called on newMessages (reversing it once more), the updated content
\* is put together and the write is requested
ReadDone(r) ==
    /\ run[r].pc = "read"
    /\ run[r].path \in DOMAIN files
    /\ LET rec == run[r]
           existingContent == files[rec.path]
           newMessagesMarkdown == generateMessagesMarkdown(rec.newMessages)
           updatedContent == UpdatedContent(existingContent, rec.aiSummary,
                                            newMessagesMarkdown)
       IN  Commit(r, [rec EXCEPT !.pc = "append", !.markdown = updatedContent,
                                 !.newMessages = Reverse(rec.newMessages)],
                  [calls[r] EXCEPT ![rec.ci].write = @ + 1], notices[r])
    /\ UNCHANGED <<settings, data, files, remote, profiles, clock, timer, plugin, started, posted>>

\* the ts of the messages of a batch
TsOfBatch(messages) == {messages[k].ts : k \in 1..Len(messages)}

\* vault.adapter.write of the updated content ends: syncChannel returns
AppendDone(r) ==
    /\ run[r].pc = "append"
    /\ files' = Put(files, run[r].path, run[r].markdown)
    /\ LET rec == run[r]
       IN  NextChannel(r, rec.ci + 1, rec.quiet,
                       [calls[r] EXCEPT ![rec.ci].written =
                            @ \cup TsOfBatch(rec.newMessages)],
                       notices[r])
    /\ UNCHANGED <<settings, data, remote, profiles, clock, timer, plugin, started, posted>>

\* vault.create ends: the document exists with the generated markdown, and
\* syncChannel returns; create throws when the path exists by now
CreateDone(r) ==
    /\ run[r].pc = "create"
    /\ LET rec == run[r]
       IN  IF rec.path \in DOMAIN files
           THEN /\ Fail(r, rec.ci, calls[r], notices[r], "File already exists.")
                /\ UNCHANGED files
           ELSE /\ files' = Put(files, rec.path, rec.markdown)
                /\ NextChannel(r, rec.ci + 1, rec.quiet,
                               [calls[r] EXCEPT ![rec.ci].written =
                                    @ \cup TsOfBatch(rec.newMessages)],
                               notices[r])
    /\ UNCHANGED <<settings, data, remote, profiles, clock, timer, plugin, started, posted>>

\* a vault request (exists, read, write, create) throws: the error leaves
\* syncChannel and reaches the catch block of syncSlackMessages
VaultFails(r) ==
    /\ run[r].pc \in {"exists", "read", "append", "create"}
    /\ Fail(r, run[r].ci, calls[r], notices[r], "vault request failed")
    /\ UNCHANGED <<settings, data, files, remote, profiles, clock, timer, plugin, started, posted>>

\* the history request answers ok: true with its messages oldest first
\* (the order of the page is the server's; syncChannel keeps it)
HistoryResponseOldestFirst(r) ==
    /\ run[r].pc = "history"
    /\ \E inclusive \in BOOLEAN :
        LET rec == run[r]
            messages == Reverse(HistoryPage(settings.channels[rec.ci], rec.last,
                                            inclusive))
            newMessages == SelectSeq(messages, LAMBDA msg : IsNewMessage(msg, rec.last))
        IN  /\ Len(newMessages) > 1
            /\ Commit(r, [rec EXCEPT !.pc = "team", !.newMessages = newMessages],
                      [calls[r] EXCEPT ![rec.ci].team = @ + 1], notices[r])
    /\ UNCHANGED <<settings, data, files, remote, profiles, clock, timer, plugin, started, posted>>

\* somebody posts a message to a channel the plugin syncs
PostMessageChannel ==
    /\ clock < MaxClockAppend
    /\ \E c \in Range(settings.channels), shape \in MsgShapes :
           remote' = [remote EXCEPT ![c] = @ \cup {Msg(TsOf(clock + 1), shape)}]
    /\ clock' = clock + 1
    /\ UNCHANGED <<settings, data, files, profiles, run, notices, calls, timer, plugin,
                   started>>
    /\ posted' = TRUE

StepChannel(r) ==
    \/ HistoryFails(r)
    \/ HistoryResponse(r)
    \/ HistoryResponseOldestFirst(r)
    \/ TeamResponse(r)
    \/ UserResponse(r)
    \/ SaveDoneChannel(r)
    \/ AiResponseChannel(r)
    \/ ExistsResponse(r)
    \/ ReadDone(r)
    \/ AppendDone(r)
    \/ CreateDone(r)
    \/ VaultFails(r)

NextAppend ==
    \/ PostMessageChannel
    \/ StartSync
    \/ \E r \in Runs : StepChannel(r)

\* the channel-document variant loaded for one channel, without and with
\* AI summaries
InitAppend ==
    \E st \in {[BaseSettings EXCEPT !.channels = <<"general">>],
               [AiSettings("gemini", "key") EXCEPT !.channels = <<"general">>]} :
        onload(st, Workspace(Profile("Dis", "", ""), Profile("", "", "nam")))

SpecAppend == InitAppend /\ [][NextAppend]_vars

(***************************************************************************)
(* Invocations of syncSlackMessages that overlap                           *)
(***************************************************************************)
\* a sync is started by the ribbon icon, the command or the interval timer;
\* none of the three looks at whether an earlier invocation is still
\* running
Trigger == \E r \in Runs : syncSlackMessages(r)

NextOverlap ==
    \/ PostMessageChannel
    \/ Trigger
    \/ \E r \in Runs : Step(r)

\* the plugin loaded for one channel with summaries by Anthropic, in a
\* workspace where one message was posted to that channel at the first
\* tick and none at the second
InitOverlap ==
    \E boot \in {b \in Boots : ApiKey(b.settings) # ""} :
        Loaded([boot.settings EXCEPT !.channels = <<Channels[1]>>], boot.profiles,
               [c \in Range(Channels) |->
                   IF c = Channels[1]
                   THEN {Msg(TsOf(1), [user |-> "U2", replies |-> <<>>,
                                       text |-> "a"])}
                   ELSE {}],
               2)

SpecOverlap == InitOverlap /\ [][NextOverlap]_vars

(***************************************************************************)
(* A channel with more new messages than one history page holds            *)
(***************************************************************************)
\* messages waiting in the channel when the plugin is loaded: one more than
\* the limit=50 of the history request
BacklogSize == 51

\* the waiting messages, a hundredth of a second apart
Backlog ==
    {Msg(TsString(100 + k), [user |-> "U2", replies |-> <<>>, text |-> "a"]) :
        k \in 1..BacklogSize}

\* the plugin loaded for one channel that holds the backlog
InitPage ==
    Loaded([BaseSettings EXCEPT !.channels = <<Channels[1]>>],
           Workspace(Profile("", "", ""), Profile("Dis", "", "")),
           [c \in Range(Channels) |-> IF c = Channels[1] THEN Backlog ELSE {}],
           MaxClock)

\* the steps of a cycle over messages without replies and without summaries
StepPage(r) ==
    \/ HistoryFails(r)
    \/ HistoryResponse(r)
    \/ TeamResponse(r)
    \/ UserResponse(r)
    \/ SaveDone(r)
    \/ WriteDone(r)
    \/ WriteFails(r)

NextPage ==
    \/ StartSync
    \/ \E r \in Runs : StepPage(r)

SpecPage == InitPage /\ [][NextPage]_vars

(***************************************************************************)
(* One message or thread and the summary made of it                        *)
(***************************************************************************)
\* the plugin loaded for one channel, with summaries by OpenAI or without
\* summaries
TextConfigs ==
    { [AiSettings("openai", "key") EXCEPT !.channels = <<Channels[1]>>],
      [BaseSettings EXCEPT !.channels = <<Channels[1]>>] }

\* the fixed-point times of the message: early on the first day, and a
\* hundredth of a second before the first day ends
RootTimes == {125, 8639999}

\* the plugin loaded while the channel holds one message
InitText ==
    \E st \in TextConfigs, shape \in TextShapes, v \in RootTimes :
        Loaded(st, Workspace(Profile("Dis", "", ""), Profile("", "", "")),
               [c \in Range(Channels) |->
                   IF c = Channels[1] THEN {Msg(TsString(v), shape)} ELSE {}],
               MaxClock)

\* how the summary request ends here: thrown, or answered by a text
TextOutcomes ==
    {[kind |-> "throw", status |-> 0, completions |-> <<>>]}
    \cup {[kind |-> "answer", status |-> 200, completions |-> <<aiSummary>>] :
             aiSummary \in SummaryCases}

\* the text-generation request of createMessageFile ends
AiResponseText(r) == AiAnswered(r, FALSE, TextOutcomes)

StepText(r) ==
    \/ HistoryResponse(r)
    \/ TeamResponse(r)
    \/ UserResponse(r)
    \/ SaveDone(r)
    \/ ThreadResponse(r)
    \/ ThreadUserResponse(r)
    \/ AiResponseText(r)
    \/ WriteDone(r)

NextText ==
    \/ StartSync
    \/ \E r \in Runs : StepText(r)

SpecText == InitText /\ [][NextText]_vars

(***************************************************************************)
(* The settings tab, the interval timer and onunload                       *)
(***************************************************************************)
\* the values the slider of the sync interval is set to (hours)
Intervals == {1, 24}

\* the onChange callbacks of the auto sync toggle and of the interval
\* slider up to the saveData request of saveSettings: the setting is
\* changed in this.settings
ChangeSetting ==
    /\ plugin.loaded
    /\ plugin.changes < MaxChanges
    /\ \E st \in {[settings EXCEPT !.autoSync = value] : value \in BOOLEAN}
                 \cup {[settings EXCEPT !.syncInterval = value] : value \in Intervals} :
          /\ st # settings
          /\ settings' = st
          /\ plugin' = [plugin EXCEPT !.changes = @ + 1, !.saving = Append(@, st)]
    /\ UNCHANGED <<data, files, remote, profiles, clock, run, notices, calls, timer,
                   started, posted>>

\* saveData of a saveSettings call of the settings tab ends: the settings
\* are on disk and startAutoSync runs
SettingsSaved ==
    /\ plugin.saving # <<>>
    /\ data' = Head(plugin.saving)
    /\ timer' = startAutoSync(settings, timer)
    /\ plugin' = [plugin EXCEPT !.saving = Tail(@),
                                !.notices = AutoSyncNotice(settings, @)]
    /\ UNCHANGED <<settings, files, remote, profiles, clock, run, notices, calls,
                   started, posted>>

\* the interval timer fires: its callback calls syncSlackMessages
TimerFires ==
    /\ timer.active # {}
    /\ \E r \in Runs : syncSlackMessages(r)

\* the ribbon icon or the command calls syncSlackMessages
ManualSync ==
    /\ plugin.loaded
    /\ \A q \in Runs : run[q].pc = "idle"
    /\ \E r \in Runs : syncSlackMessages(r)

\* onunload: the plugin is disabled; what its requests still wait for
\* goes on
onunload ==
    /\ plugin.loaded
    /\ plugin' = [plugin EXCEPT !.loaded = FALSE]
    /\ timer' = stopAutoSync(timer)
    /\ UNCHANGED <<settings, data, files, remote, profiles, clock, run, notices, calls,
                   started, posted>>

\* the plugin loaded for one channel that holds one message, with auto
\* sync off or on
InitTimer ==
    \E value \in BOOLEAN :
        Loaded([BaseSettings EXCEPT !.channels = <<Channels[1]>>, !.autoSync = value],
               Workspace(Profile("Dis", "", ""), Profile("", "", "")),
               [c \in Range(Channels) |->
                   IF c = Channels[1] THEN {Msg(TsOf(1), [user |-> "U1", replies |-> <<>>,
                                                          text |-> "deploy done"])}
                   ELSE {}],
               MaxClock)

StepTimer(r) ==
    \/ HistoryResponse(r)
    \/ TeamResponse(r)
    \/ UserResponse(r)
    \/ SaveDone(r)
    \/ WriteDone(r)

NextTimer ==
    \/ ChangeSetting
    \/ SettingsSaved
    \/ TimerFires
    \/ ManualSync
    \/ onunload
    \/ \E r \in Runs : StepTimer(r)

SpecTimer == InitTimer /\ [][NextTimer]_vars

(***************************************************************************)
(* Properties                                                              *)
(***************************************************************************)
\* the watermark of a channel as saveData last wrote it ('0' when none)
PersistedTimestamp(channelName) ==
    LET m == data.lastSyncTimestamps
    IN  IF channelName \in DOMAIN m /\ m[channelName] # <<>>
        THEN m[channelName] ELSE <<"0">>

\* C1: in a channel cycle with new messages the watermark is persisted only
\* after the documents of all of the cycle's new messages are written: while
\* a new message of the cycle still waits for its document (the cycle is at
\* its thread, lookup, summary or write step for that message or an earlier
\* one), the persisted watermark does not cover that message.
C1_WatermarkPersistedAfterWrites ==
    \A r \in Runs :
        run[r].pc \in {"thread", "tuser", "ai", "write"} =>
            LET rec == run[r]
                wm == data.lastSyncTimestamps
                c == settings.channels[rec.ci]
            IN  \A j \in rec.mi..Len(rec.newMessages) :
                    ~(/\ c \in DOMAIN wm
                      /\ parseFloat(wm[c]) >= parseFloat(rec.newMessages[j].ts))

\* C2: after a channel cycle that returned and wrote documents, the stored
\* watermark is exactly the ts string of the newest message written in the
\* cycle, and it is not less than the watermark before the cycle, neither
\* as a string nor as a number.
C2_WatermarkIsNewestWrittenTs ==
    \A r \in Runs : \A i \in 1..Len(settings.channels) :
        LET cyc == calls[r][i]
            wm == PersistedTimestamp(settings.channels[i])
        IN  cyc.outcome = "returned" /\ cyc.written # {} =>
                /\ wm \in cyc.written
                /\ \A t \in cyc.written : parseFloat(t) <= parseFloat(wm)
                /\ ~StrGreater(cyc.before, wm)
                /\ parseFloat(cyc.before) <= parseFloat(wm)

\* C3: a message whose document an earlier cycle wrote is never selected
\* again: when the filter of syncChannel has selected the new messages of a
\* cycle (the cycle is at its team.info request), the vault holds no
\* document of any of them, even if the history endpoint returned the
\* message at the watermark.
C3_WrittenMessageNotSelectedAgain ==
    \A r \in Runs :
        run[r].pc = "team" =>
            \A j \in 1..Len(run[r].newMessages) :
                \A path \in DOMAIN files :
                    files[path].messages[1].ts # run[r].newMessages[j].ts

\* C4: a sync that starts right after a successful one, with no message
\* posted since that one began, issues nothing but the history request of
\* each channel: it never reaches a team.info, users.info, replies,
\* summary, save or write step.
C4_SecondRunOnlyFetchesHistory ==
    \A r \in Runs :
        run[r].quiet /\ ~posted => run[r].pc \in {"idle", "history"}

\* C5: when the cycle of a channel has failed (history request thrown or
\* not ok, or a document write thrown), the persisted watermark of the
\* channel is the one it had before the cycle.
C5_FailedCycleKeepsWatermark ==
    \A r \in Runs : \A i \in 1..Len(settings.channels) :
        calls[r][i].outcome = "threw" =>
            PersistedTimestamp(settings.channels[i]) = calls[r][i].before

\* C6: when syncChannel has thrown for the channel at position i, the run
\* is over and every later channel is untouched: no request issued, no
\* document written, watermark as when the run began, in memory and on
\* disk; and the step that throws keeps every document, every watermark
\* and the record of the earlier channels.
C6_FailureSkipsRemainingChannels ==
    /\ [](\A r \in Runs : \A i \in 1..Len(settings.channels) :
            calls[r][i].outcome = "threw" =>
                /\ run[r].pc = "idle"
                /\ \A j \in (i + 1)..Len(settings.channels) :
                      /\ calls[r][j] =
                            [NoCalls EXCEPT !.before =
                                PersistedTimestamp(settings.channels[j])]
                      /\ LastSyncTimestamp(settings.channels[j]) = calls[r][j].before)
    /\ [][\A r \in Runs : \A i \in 1..Len(settings.channels) :
            calls[r][i].outcome # "threw" /\ calls'[r][i].outcome = "threw" =>
                /\ files' = files
                /\ data' = data
                /\ settings' = settings
                /\ \A j \in 1..(i - 1) : calls'[r][j] = calls[r][j]]_vars

\* C6 happens: the first channel failed while the second one had a message
\* waiting that no cycle had fetched
C6_Witness ==
    \E r \in Runs :
        /\ calls[r][1].outcome = "threw"
        /\ remote[settings.channels[2]] # {}
        /\ PersistedTimestamp(settings.channels[2]) = <<"0">>

\* C7: a replies request that fails keeps the run going: the step that ends
\* a replies request moves the same message of the same channel on to its
\* lookups, summary or write and raises no error notice; and the document
\* issued for a message whose replies request failed holds exactly the
\* root message.
C7_ThreadFailureKeepsRoot ==
    /\ [](\A r \in Runs :
            run[r].threadFailed /\ run[r].pc = "write" =>
                LET root == run[r].newMessages[run[r].mi]
                IN  /\ root.reply_count > 0
                    /\ run[r].markdown.messages =
                          <<[heading |-> "##", ts |-> root.ts,
                             userName |-> UserName(root), text |-> root.text]>>)
    /\ [][\A r \in Runs :
            run[r].pc = "thread" /\ run'[r] # run[r] =>
                /\ run'[r].pc \in {"tuser", "ai", "write"}
                /\ run'[r].ci = run[r].ci
                /\ run'[r].mi = run[r].mi
                /\ run'[r].newMessages = run[r].newMessages
                /\ \/ notices'[r] = notices[r]
                   \/ notices'[r] = Append(notices[r], "AI Summary failed")]_vars

\* C7 happens: a run ended with the success notice, and the vault holds the
\* document of a message with replies that contains the root alone
C7_Witness ==
    \E r \in Runs :
        /\ run[r].pc = "idle"
        /\ notices[r] # <<>>
        /\ notices[r][Len(notices[r])] = "Slack sync completed successfully!"
        /\ \E c \in Range(Channels) : \E m \in remote[c] :
              /\ m.reply_count > 0
              /\ \E path \in DOMAIN files :
                    /\ files[path].messages[1].ts = m.ts
                    /\ Len(files[path].messages) = 1

\* C8: with AI summaries enabled, whatever the provider, a summary that
\* fails (no API key, request thrown, status not 200, no completion) keeps
\* the run going: the step that ends a summary request moves the same
\* message on to its write and raises no notice but "AI Summary failed";
\* the document issued after a failed summary holds the thread, no summary
\* block and no tags; without an API key no request is sent and every
\* document is issued that way; and a run is only ever ended early by a
\* history request or a vault write.
C8_SummaryFailureKeepsDocument ==
    /\ [](\A r \in Runs :
            /\ run[r].pc = "ai" => ApiKey(settings) # ""
            /\ run[r].pc = "write" /\ ApiKey(settings) = "" => run[r].aiFailed
            /\ run[r].aiFailed /\ run[r].pc = "write" =>
                  /\ run[r].markdown.summary = ""
                  /\ run[r].markdown.tags = <<>>
                  /\ run[r].markdown.messages[1].ts = run[r].newMessages[run[r].mi].ts
                  /\ notices[r][Len(notices[r])] = "AI Summary failed")
    /\ [][\A r \in Runs :
            /\ run[r].pc = "ai" /\ run'[r] # run[r] =>
                  /\ run'[r].pc = "write"
                  /\ run'[r].ci = run[r].ci
                  /\ run'[r].mi = run[r].mi
                  /\ \/ notices'[r] = notices[r]
                     \/ notices'[r] = Append(notices[r], "AI Summary failed")
            /\ run[r].pc # "idle" /\ run'[r].pc = "idle"
                 /\ notices'[r][Len(notices'[r])] # "Slack sync completed successfully!" =>
                  run[r].pc \in {"history", "write"}]_vars

\* C8 happens: a run that raised "AI Summary failed" wrote a document
\* without summary and tags and ended with the success notice
C8_Witness ==
    \E r \in Runs :
        /\ run[r].pc = "idle"
        /\ notices[r] # <<>>
        /\ notices[r][Len(notices[r])] = "Slack sync completed successfully!"
        /\ \E k \in 1..Len(notices[r]) : notices[r][k] = "AI Summary failed"
        /\ \E i \in 1..Len(settings.channels) : calls[r][i].written # {}
        /\ \E path \in DOMAIN files :
              files[path].summary = "" /\ files[path].tags = <<>>

C10_DisplayNameFallback ==
    /\ [](\A r \in Runs :
            run[r].answer # NoAnswer =>
                LET u == run[r].answer.userId
                    o == run[r].answer.outcome
                    names == <<o.user.display_name, o.user.real_name, o.user.name, u>>
                    first == CHOOSE k \in 1..4 :
                                 /\ names[k] # ""
                                 /\ \A l \in 1..(k - 1) : names[l] = ""
                    expected == IF o.kind = "ok" THEN names[first] ELSE u
                IN  /\ run[r].pc \in {"user", "save"}
                    /\ run[r].userInfoMap[u] = expected
                    /\ run[r].pc = "save" =>
                          \A j \in 1..Len(run[r].newMessages) :
                              run[r].newMessages[j].user = u =>
                                  run[r].newMessages[j].userDisplayName = expected)
    /\ [][\A r \in Runs :
            run[r].pc = "user" /\ run'[r] # run[r] =>
                /\ run'[r].pc \in {"user", "save"}
                /\ run'[r].ci = run[r].ci
                /\ run'[r].answer.userId = Head(run[r].userIds)
                /\ notices'[r] = notices[r]]_vars

\* C10 happens: users.info answered a profile without display name and
\* real name, the cycle is at its save and the message of that user
\* carries the account name
C10_Witness ==
    \E r \in Runs :
        /\ run[r].pc = "save"
        /\ run[r].answer.outcome.kind = "ok"
        /\ run[r].answer.outcome.user.display_name = ""
        /\ run[r].answer.outcome.user.real_name = ""
        /\ run[r].answer.outcome.user.name # ""
        /\ \E j \in 1..Len(run[r].newMessages) :
              /\ run[r].newMessages[j].user = run[r].answer.userId
              /\ run[r].newMessages[j].userDisplayName =
                    run[r].answer.outcome.user.name

\* C11 as stated: within one run at most one team.info request is issued,
\* the requests of all channel cycles counted together.
C11_OneTeamLookupPerRun ==
    \A r \in Runs :
        LET RECURSIVE total(_)
            total(i) == IF i = 0 THEN 0 ELSE calls[r][i].team + total(i - 1)
        IN  total(Len(settings.channels)) <= 1

\* C11 amended: each channel cycle issues at most one team.info request,
\* and only after its history request found new messages; a cycle that is
\* at its team.info request holds the new messages it is issued for.
C11_OneTeamLookupPerCycle ==
    \A r \in Runs : \A i \in 1..Len(settings.channels) :
        /\ calls[r][i].team <= 1
        /\ calls[r][i].team <= calls[r][i].history
        /\ run[r].pc = "team" /\ run[r].ci = i =>
              calls[r][i].team = 1 /\ run[r].newMessages # <<>>

\* C11 happens: both channels had new messages and the run issued a
\* team.info request in each of the two cycles
C11_Witness ==
    \E r \in Runs :
        /\ calls[r][1].team = 1
        /\ calls[r][2].team = 1
        /\ calls[r][1].written # {}

\* C12: a team.info request that throws or is not ok does not stop the
\* cycle: the step that ends the request goes on to the lookups or the save
\* with the same new messages and no notice, the save advances the
\* watermark to the newest of them, and every document then issued has no
\* slack_url; after a team.info request that succeeded the slack_url of
\* the document is workspace url, "archives", channel, and "p" followed by
\* the digits of the root ts without the decimal point.
C12_SlackUrlOnlyWithWorkspace ==
    /\ [](\A r \in Runs :
            /\ run[r].pc = "save" =>
                  \A j \in 1..Len(run[r].newMessages) :
                      parseFloat(run[r].newMessages[j].ts) <=
                          parseFloat(run[r].saving.lastSyncTimestamps[
                                         settings.channels[run[r].ci]])
            /\ run[r].pc = "write" =>
                  LET root == run[r].newMessages[run[r].mi]
                      digits == SelectSeq(root.ts, LAMBDA ch : ch # ".")
                  IN  IF run[r].workspaceUrl = ""
                      THEN run[r].markdown.slack_url = <<>>
                      ELSE run[r].markdown.slack_url =
                               <<run[r].workspaceUrl, "archives",
                                 settings.channels[run[r].ci], <<"p">> \o digits>>)
    /\ [][\A r \in Runs :
            run[r].pc = "team" /\ run'[r] # run[r] =>
                /\ run'[r].pc \in {"user", "save"}
                /\ run'[r].ci = run[r].ci
                /\ Len(run'[r].newMessages) = Len(run[r].newMessages)
                /\ \A j \in 1..Len(run[r].newMessages) :
                      run'[r].newMessages[j].ts = run[r].newMessages[j].ts
                /\ run'[r].workspaceUrl \in {"", "https://acme.slack.com"}
                /\ notices'[r] = notices[r]]_vars

\* C12 happens: a run whose team.info request failed ended with the success
\* notice, its document has no slack_url and the watermark is persisted
C12_Witness ==
    \E r \in Runs :
        /\ run[r].pc = "idle"
        /\ notices[r] # <<>>
        /\ notices[r][Len(notices[r])] = "Slack sync completed successfully!"
        /\ calls[r][1].team = 1
        /\ calls[r][1].written # {}
        /\ \E path \in DOMAIN files : files[path].slack_url = <<>>
        /\ PersistedTimestamp(settings.channels[1]) # <<"0">>

\* C13: two messages of one cycle are never written to the same path, so
\* once a channel cycle has returned, the text of every message it wrote
\* is in some document of the vault.
C13_EveryMessageKeepsItsDocument ==
    \A r \in Runs : \A i \in 1..Len(settings.channels) :
        calls[r][i].outcome = "returned" =>
            \A m \in remote[settings.channels[i]] :
                m.ts \in calls[r][i].written =>
                    \E path \in DOMAIN files :
                        \E k \in 1..Len(files[path].messages) :
                            files[path].messages[k].text = m.text

\* a is the beginning of b
IsPrefix(a, b) == Len(a) <= Len(b) /\ SubSeq(b, 1, Len(a)) = a

\* tail is a rendering of the batch: one message section per message
IsRenderedBatch(tail, batch) ==
    /\ Len(tail) = Len(batch)
    /\ \A k \in 1..Len(tail) : tail[k].kind = "message"
    /\ {tail[k].ts : k \in 1..Len(tail)} = TsOfBatch(batch)

\* the step of invocation r that ends its vault.adapter.write of an
\* existing document, with what the document held before followed by
\* between and a rendering of the batch
AppendsAfter(r, between) ==
    LET p == run[r].path
        n == Len(files[p]) + Len(between)
    IN  /\ p \in DOMAIN files'
        /\ IsPrefix(files[p] \o between, files'[p])
        /\ IsRenderedBatch(SubSeq(files'[p], n + 1, Len(files'[p])),
                           run[r].received)

\* the step of invocation r that ends vault.create: the path held nothing
\* and now holds a fresh document (frontmatter first) with the batch
CreatesFresh(r) ==
    LET p == run[r].path
    IN  /\ p \notin DOMAIN files
        /\ p \in DOMAIN files'
        /\ files'[p][1].kind = "frontmatter"
        /\ \A k \in 2..Len(files'[p]) : files'[p][k].kind # "frontmatter"
        /\ \E n \in 1..Len(files'[p]) :
              IsRenderedBatch(SubSeq(files'[p], n + 1, Len(files'[p])),
                              run[r].received)

\* no step removes or alters what a document held
NothingRemoved ==
    \A p \in DOMAIN files : p \in DOMAIN files' /\ IsPrefix(files[p], files'[p])

\* C14 as stated: in the channel-document variant, a write to an existing
\* document writes the previous content followed by the rule and the newly
\* rendered batch, a missing document is created fresh, and no cycle removes
\* or alters what an earlier cycle wrote.
C14_AppendIsContentRuleBatch ==
    [][/\ NothingRemoved
       /\ \A r \in Runs :
            /\ run[r].pc = "append" /\ files' # files => AppendsAfter(r, <<Rule>>)
            /\ run[r].pc = "create" /\ files' # files => CreatesFresh(r)]_vars

\* C14, amended: a write to an existing document writes the previous
\* content, unchanged, followed by the summary of the batch when summaries
\* are enabled and one was generated, then the rule and the newly rendered
\* batch; a missing document is created fresh; no step removes or alters
\* what a document held.
C14_AppendKeepsContent ==
    [][/\ NothingRemoved
       /\ \A r \in Runs :
            /\ run[r].pc = "append" /\ files' # files =>
                 AppendsAfter(r,
                     IF settings.enableAISummary /\ run[r].aiSummary # ""
                     THEN <<Block("summary", <<>>, "", <<>>, <<run[r].aiSummary>>), Rule>>
                     ELSE <<Rule>>)
            /\ run[r].pc = "create" /\ files' # files => CreatesFresh(r)]_vars

\* a document that was appended to with a summary: the summary follows the
\* last message section of the content before
C14_Witness ==
    \E p \in DOMAIN files :
        \E k \in 2..Len(files[p]) :
            files[p][k].kind = "summary" /\ files[p][k - 1].kind = "message"

\* C15 as stated: in the channel-document variant, a batch of two messages
\* received oldest first (t1 before t2) and appended to an existing
\* document is rendered, beneath the appended rule, with t2 before t1.
C15_AppendedBatchReversed ==
    \A r \in Runs :
        /\ run[r].pc = "append"
        /\ Len(run[r].received) = 2
        /\ parseFloat(run[r].received[1].ts) < parseFloat(run[r].received[2].ts)
        => LET updatedContent == run[r].markdown
               n == Len(updatedContent)
           IN  /\ updatedContent[n - 2] = Rule
               /\ updatedContent[n - 1].ts = run[r].received[2].ts
               /\ updatedContent[n].ts = run[r].received[1].ts

\* C16: with AI summary disabled no request goes to a text-generation
\* backend; with it enabled the summary of a message sends at most one
\* request, to the endpoint of the configured provider, and a failed
\* request is not sent again.
C16_OneRequestToConfiguredBackend ==
    \A r \in Runs :
        /\ ~settings.enableAISummary =>
              /\ run[r].pc # "ai"
              /\ run[r].requested = <<>>
              /\ \A i \in 1..Len(settings.channels) : calls[r][i].ai = 0
        /\ Len(run[r].requested) <= 1
        /\ run[r].pc = "ai" => Len(run[r].requested) = 1
        /\ \A k \in 1..Len(run[r].requested) :
              /\ settings.aiProvider = "openai" =>
                    run[r].requested[k] = "api.openai.com"
              /\ settings.aiProvider = "anthropic" =>
                    run[r].requested[k] = "api.anthropic.com"
              /\ settings.aiProvider = "gemini" =>
                    run[r].requested[k] = "generativelanguage.googleapis.com"
        /\ run[r].ci > 0 => calls[r][run[r].ci].ai <= run[r].mi
        /\ run[r].aiAnswer.kind \in {"throw", "answer"} => Len(run[r].requested) = 1

\* the second message of a cycle is about to be written after its summary
\* request to Gemini failed: one request was sent for it, two in the cycle
C16_Witness ==
    \E r \in Runs :
        /\ run[r].pc = "write"
        /\ run[r].mi = 2
        /\ run[r].aiFailed
        /\ settings.aiProvider = "gemini"
        /\ run[r].requested = <<"generativelanguage.googleapis.com">>
        /\ calls[r][run[r].ci].ai = 2

\* what the configured backend has to do with the answer outcome, when the
\* statuses that count as success are those of ok: fail for a missing key
\* (no request sent), a thrown request, another status or an answer without
\* completions, and otherwise return the first completion as the summary
BackendFollows(r, ok) ==
    LET a == run[r].aiAnswer
        summary == run[r].markdown.summary
        failed == run[r].aiFailed /\ summary = ""
                  /\ notices[r][Len(notices[r])] = "AI Summary failed"
    IN  /\ ApiKey(settings) = "" <=> a.kind = "nokey"
        /\ a.kind = "nokey" => failed /\ run[r].requested = <<>>
        /\ a.kind = "throw" => failed
        /\ a.kind = "answer" /\ a.status \notin ok => failed
        /\ a.kind = "answer" /\ a.status \in ok /\ a.completions = <<>> => failed
        /\ a.kind = "answer" /\ a.status \in ok /\ a.completions # <<>> =>
              /\ ~run[r].aiFailed
              /\ summary = a.completions[1]

\* C17 as stated: each backend fails without a request when its key is
\* empty, fails on every non-2xx status, fails on a success answer without
\* completions, and in every other case returns the text of the first
\* completion unchanged.
C17_BackendFailsOnNon2xx ==
    \A r \in Runs :
        run[r].pc = "write" /\ run[r].aiAnswer.kind # "" =>
            BackendFollows(r, 200..299)

\* C17, amended: each backend fails without a request when its key is
\* empty, fails on every status other than 200, fails on a 200 answer
\* without completions, and in every other case returns the text of the
\* first completion unchanged.
C17_BackendFailsOnNon200 ==
    \A r \in Runs :
        run[r].pc = "write" /\ run[r].aiAnswer.kind # "" =>
            BackendFollows(r, {200})

\* a document is about to be written with, as its summary, the first of two
\* completions of a 200 answer from Anthropic
C17_Witness ==
    \E r \in Runs :
        /\ run[r].pc = "write"
        /\ settings.aiProvider = "anthropic"
        /\ run[r].aiAnswer.kind = "answer"
        /\ run[r].aiAnswer.status = 200
        /\ Len(run[r].aiAnswer.completions) = 2
        /\ run[r].markdown.summary = run[r].aiAnswer.completions[1]
        /\ run[r].markdown.summary # run[r].aiAnswer.completions[2]

\* how many notices of a sequence are in a set
RECURSIVE CountIn(_, _)
CountIn(nt, S) ==
    IF nt = <<>> THEN 0
    ELSE (IF Head(nt) \in S THEN 1 ELSE 0) + CountIn(Tail(nt), S)

\* the errors an awaited call at a position of syncChannel can throw
ErrorsAt(r) ==
    IF run[r].pc = "history"
    THEN {"Request failed",
          "Failed to fetch messages from " \o settings.channels[run[r].ci]
              \o ": channel_not_found"}
    ELSE IF run[r].pc = "write" THEN {"write failed"}
    ELSE {}

\* the failure notices of syncSlackMessages
FailureNotices ==
    {"Error during Slack sync: " \o m :
        m \in {"Request failed", "write failed"}
              \cup {"Failed to fetch messages from " \o c \o ": channel_not_found" :
                       c \in Range(Channels)}}

\* the final notices of syncSlackMessages
FinalNotices == {"Slack sync completed successfully!"} \cup FailureNotices

\* the notices of invocation r so far are those of a run of syncSlackMessages
NoticesInOrder(r) ==
    LET nt == notices[r]
        threw == \E i \in 1..Len(settings.channels) : calls[r][i].outcome = "threw"
        requests == \A i \in 1..Len(settings.channels) :
                        calls[r][i].history + calls[r][i].team + calls[r][i].replies
                            + calls[r][i].ai + calls[r][i].write = 0
    IN  IF settings.slackToken = ""
        THEN /\ run[r].pc = "idle"
             /\ CountIn(nt, {"Starting Slack sync..."} \cup FinalNotices) = 0
             /\ requests
        ELSE nt # <<>> =>
             /\ nt[1] = "Starting Slack sync..."
             /\ CountIn(nt, {"Starting Slack sync..."}) = 1
             /\ run[r].pc # "idle" => CountIn(nt, FinalNotices) = 0 /\ ~threw
             /\ run[r].pc = "idle" =>
                   /\ CountIn(nt, FinalNotices) = 1
                   /\ nt[Len(nt)] \in FinalNotices
                   /\ nt[Len(nt)] = "Slack sync completed successfully!" <=> ~threw

\* C18: a run started with a token emits exactly one start notice and, when
\* every awaited call returns or throws, ends with exactly one final notice:
\* the success notice if no channel cycle threw, otherwise one failure
\* notice with the message of the error that stopped it; a run started
\* without a token emits neither and issues no request.
C18_OneStartOneFinalNotice ==
    /\ [](\A r \in Runs : NoticesInOrder(r))
    /\ [][\A r \in Runs :
            run[r].pc # "idle" /\ run'[r].pc = "idle"
            /\ notices'[r][Len(notices'[r])] # "Slack sync completed successfully!"
            => \E m \in ErrorsAt(r) :
                  notices'[r] = Append(notices[r], "Error during Slack sync: " \o m)]_vars
    /\ \A r \in Runs :
          (run[r].pc # "idle") ~>
              (run[r].pc = "idle" /\ CountIn(notices[r], FinalNotices) = 1)

\* a run that ended with the failure notice of a failed write in the second
\* channel, after the cycle of the first channel returned
C18_Witness ==
    \E r \in Runs :
        /\ run[r].pc = "idle"
        /\ calls[r][1].outcome = "returned"
        /\ calls[r][1].written # {}
        /\ calls[r][2].outcome = "threw"
        /\ notices[r][1] = "Starting Slack sync..."
        /\ notices[r][Len(notices[r])] = "Error during Slack sync: write failed"
        /\ CountIn(notices[r], FinalNotices) = 1

\* the positions of syncChannel and createMessageFile at which a request
\* to Slack or to a text-generation backend is awaited
RequestPositions == {"history", "team", "user", "thread", "tuser", "ai"}

\* C19 as stated: at every moment at most one outbound request is in
\* flight, also when a sync is triggered while an earlier run has not
\* finished.
C19_OneRequestInFlight ==
    Cardinality({r \in Runs : run[r].pc \in RequestPositions}) <= 1

\* no message has been written to a document by both invocations
WrittenOnce ==
    \A i \in 1..Len(settings.channels) :
        calls[1][i].written \cap calls[2][i].written = {}

\* the saved watermark of no channel goes down in a step
WatermarkGoesUp ==
    \A c \in Range(settings.channels) :
        LET before == data.lastSyncTimestamps
            after == data'.lastSyncTimestamps
        IN  c \in DOMAIN before =>
               /\ c \in DOMAIN after
               /\ parseFloat(after[c]) >= parseFloat(before[c])

\* C20 as stated: when two invocations of syncSlackMessages overlap, the
\* persisted watermark of the channel never decreases and no message is
\* written to a document by both runs.
C20_OverlapIsHarmless ==
    /\ [](WrittenOnce)
    /\ [][WatermarkGoesUp]_vars

\* the messages of a channel that are older than its saved watermark and
\* in no document
Skipped(channelName) ==
    {m \in remote[channelName] :
        /\ parseFloat(m.ts) < parseFloat(PersistedTimestamp(channelName))
        /\ \A p \in DOMAIN files :
              \A k \in 1..Len(files[p].messages) : files[p].messages[k].ts # m.ts}

\* C21: a channel cycle issues exactly one history request and no second
\* page; what it selects are at most 50 messages, the newest after the
\* stored watermark, and the watermark it stores is the ts of the newest of
\* them, so a message the page left out is older than the watermark and no
\* later cycle selects it.
C21_OnlyFirstPage ==
    \A r \in Runs :
        /\ \A i \in 1..Len(settings.channels) :
              /\ calls[r][i].history <= 1
              /\ (run[r].ci >= i \/ calls[r][i].outcome # "") => calls[r][i].history = 1
        /\ run[r].pc \notin {"idle", "history"} =>
              LET cycle == calls[r][run[r].ci]
                  channelName == settings.channels[run[r].ci]
                  n == Len(run[r].newMessages)
                  selected == {run[r].newMessages[k].ts : k \in 1..n}
              IN  /\ n <= 50
                  /\ \A k \in 1..n :
                        parseFloat(run[r].newMessages[k].ts) > parseFloat(cycle.before)
                  /\ \A k \in 1..(n - 1) :
                        parseFloat(run[r].newMessages[k].ts)
                            > parseFloat(run[r].newMessages[k + 1].ts)
                  /\ \A m \in remote[channelName] :
                        parseFloat(m.ts) > parseFloat(run[r].newMessages[n].ts)
                            => m.ts \in selected
                  /\ run[r].pc = "write" =>
                        parseFloat(PersistedTimestamp(channelName))
                            = parseFloat(run[r].newMessages[1].ts)

\* the second run has ended in success without selecting anything, the
\* watermark is the ts of the newest message, and the oldest message of
\* the backlog, which the page of the first run left out, is in no document
C21_Witness ==
    /\ started = 2
    /\ run[1].pc = "idle"
    /\ calls[1][1].history = 1
    /\ calls[1][1].team = 0
    /\ calls[1][1].outcome = "returned"
    /\ PersistedTimestamp(Channels[1]) = TsString(100 + BacklogSize)
    /\ \E m \in Skipped(Channels[1]) : m.ts = TsString(101)
    /\ files # <<>>


\* where x occurs first in the array s
FirstAt(s, x) ==
    CHOOSE i \in 1..Len(s) : s[i] = x /\ \A k \in 1..(i - 1) : s[k] # x

\* the tags createMessageFile has extracted for the document invocation r
\* is about to write
ExtractedFor(r) ==
    IF settings.enableAISummary /\ Len(Trim(run[r].markdown.summary)) > 0
    THEN ExtractTags(run[r].markdown.summary)
    ELSE <<>>

\* C22: a document about to be written has a tags key exactly when tags
\* were extracted from its summary, and the key lists every extracted tag
\* once, in the order of the first occurrences, none of them the empty
\* string
C22_TagsKeyListsEachTagOnce ==
    \A r \in Runs :
        run[r].pc = "write" =>
            LET tags == run[r].markdown.tags
                extracted == ExtractedFor(r)
            IN  /\ (tags # <<>>) <=> (extracted # <<>>)
                /\ Range(tags) = Range(extracted)
                /\ \A i \in 1..Len(tags) :
                       /\ tags[i] # ""
                       /\ \A j \in 1..Len(tags) :
                              /\ i # j => tags[i] # tags[j]
                              /\ i < j => FirstAt(extracted, tags[i]) < FirstAt(extracted, tags[j])

\* the summary text of the title-cleaning example
KickoffSummary == "## title: Project Kickoff \ntags:\n  - alpha\n  - beta\n"

\* the day a ts falls on, as the file names carry it
DayOf(ts) == ToString((parseFloat(ts) \div 100) \div 86400)

\* the file name invocation r is about to write under, without the day of
\* the root message in front of it and without the ".md" after it; "" when
\* the name is not made this way
TitleInPath(r) ==
    LET name == run[r].path[2]
        front == DayOf(run[r].newMessages[run[r].mi].ts) \o "_"
    IN  IF StartsAt(name, 1, front) /\ StartsAt(name, Len(name) - 2, ".md")
        THEN Slice(name, Len(front) + 1, Len(name) - 2)
        ELSE ""

\* invocation r is about to write a document with a summary
WritesSummarized(r) ==
    /\ run[r].pc = "write"
    /\ settings.enableAISummary
    /\ Len(Trim(run[r].markdown.summary)) > 0

\* a heading text without the label as a token of its own at its start
\* (with the colons and white space after it) and at its end
WithoutLabel(text) ==
    LET front == IF StartsAt(text, 1, TitleLabel)
                    /\ At(text, Len(TitleLabel) + 1) \notin WordChars
                 THEN StripFront(text) ELSE text
        back == IF StartsAt(front, Len(front) - Len(TitleLabel) + 1, TitleLabel)
                   /\ At(front, Len(front) - Len(TitleLabel)) \notin WordChars
                THEN StripBack(front) ELSE front
    IN  Trim(back)

\* the lines of a text that are "## " headings
HeadingLines(aiSummary) ==
    SelectSeq(Split(aiSummary, {"\n"}),
              LAMBDA line : StartsAt(line, 1, "## ") /\ Len(Trim(line)) > 2)

\* the title the first "## " heading of a text stands for: its text without
\* the label, without the illegal characters, white space made
\* underscores, cut to 50 characters; "" when there is no such title
HeadingTitle(aiSummary) ==
    IF HeadingLines(aiSummary) = <<>> THEN ""
    ELSE UsableTitle(
             Substring(
                 ReplaceRuns(
                     ReplaceEach(
                         WithoutLabel(Trim(SubSeq(HeadingLines(aiSummary)[1], 4,
                                                  Len(HeadingLines(aiSummary)[1])))),
                         IllegalChars, ""),
                     SpaceChars, "_"),
                 50))

\* C23: a document with the summary of the title-cleaning example is
\* written under the title "Project_Kickoff" with the tags alpha and beta,
\* and whenever the first "## " heading of a summary stands for a title,
\* the document is written under that title
C23_TitleIsFirstHeadingCleaned ==
    \A r \in Runs :
        WritesSummarized(r) =>
            /\ run[r].markdown.summary = KickoffSummary =>
                  /\ TitleInPath(r) = "Project_Kickoff"
                  /\ run[r].markdown.tags = <<"alpha", "beta">>
            /\ HeadingTitle(run[r].markdown.summary) # "" =>
                  TitleInPath(r) = HeadingTitle(run[r].markdown.summary)

\* the four representations of tags in a summary in the order they are
\* tried: whether the text has the representation, and the tags it gives
Representations(aiSummary) ==
    << [matches |-> YamlTags(TagsBlock(aiSummary), 1) # <<>>,
        tags |-> YamlTags(TagsBlock(aiSummary), 1)],
       [matches |-> Hashtags(aiSummary, 1) # <<>>,
        tags |-> Hashtags(aiSummary, 1)],
       [matches |-> LabeledLine(aiSummary, "tag") # 0,
        tags |-> LabeledTags(aiSummary, LabeledLine(aiSummary, "tag"))],
       [matches |-> LabeledLine(aiSummary, "related") # 0,
        tags |-> LabeledTags(aiSummary, LabeledLine(aiSummary, "related"))] >>

TextOf(r) ==
    Join([i \in 1..Len(run[r].threadMessages) |-> run[r].threadMessages[i].text], " ")

\* where the words of a text start: a word character that no word
\* character precedes
WordStarts(s) ==
    {i \in 1..Len(s) : At(s, i) \in WordChars /\ At(s, i - 1) \notin WordChars}

\* the word that starts at position i
WordAt(s, i) == Slice(s, i, SkipIn(s, i, WordChars))

\* the starts of the words of more than one character that are no stop words
Surviving(s) ==
    {i \in WordStarts(s) : Len(WordAt(s, i)) > 1 /\ WordAt(s, i) \notin StopWords}

\* the first three of them
FirstThree(s) ==
    {i \in Surviving(s) : Cardinality({j \in Surviving(s) : j < i}) < 3}

\* the words at a set of positions in their order, underscores between them
RECURSIVE WordsJoined(_, _)
WordsJoined(s, positions) ==
    IF positions = {} THEN ""
    ELSE IF Cardinality(positions) = 1 THEN WordAt(s, First(positions))
    ELSE WordAt(s, First(positions)) \o "_"
         \o WordsJoined(s, positions \ {First(positions)})

SummaryTitle(r) ==
    IF WritesSummarized(r) THEN ExtractTitle(run[r].markdown.summary) ELSE ""

\* C26: the file name of a document is the day of the root message, an
\* underscore, a non-empty title and ".md"; the title is the one of the
\* summary when there is one, else the fallback title of the message texts
\* when it is not empty, else the author name, an underscore and the hour
\* and minute of the root message
C26_TitlePrecedence ==
    \A r \in Runs :
        run[r].pc = "write" =>
            LET message == run[r].newMessages[run[r].mi]
                seconds == parseFloat(message.ts) \div 100
                fallbackTitle == generateFallbackTitle(run[r].threadMessages)
            IN  /\ TitleInPath(r) # ""
                /\ run[r].threadMessages[1].ts = message.ts
                /\ IF SummaryTitle(r) # "" THEN TitleInPath(r) = SummaryTitle(r)
                   ELSE IF fallbackTitle # "" THEN TitleInPath(r) = fallbackTitle
                   ELSE TitleInPath(r) =
                            UserName(message) \o "_" \o ToString((seconds \div 3600) % 24)
                                \o ToString((seconds \div 60) % 60)

\* a document of a thread is about to be written under the title of its
\* summary while its message texts give another fallback title
C26_Witness ==
    \E r \in Runs :
        /\ run[r].pc = "write"
        /\ SummaryTitle(r) # ""
        /\ generateFallbackTitle(run[r].threadMessages) \notin {"", SummaryTitle(r)}
        /\ TitleInPath(r) = SummaryTitle(r)
        /\ Len(run[r].threadMessages) > 1

\* no saveSettings call is waiting for saveData
NothingSaving ==
    /\ plugin.saving = <<>>
    /\ \A r \in Runs : run[r].pc # "save"

\* C27: once the settings are saved with auto sync disabled, no interval
\* timer is active (so that no timer starts a sync until auto sync is
\* enabled again)
C27_DisabledAutoSyncHasNoTimer ==
    (~settings.autoSync /\ NothingSaving) => timer.active = {}

\* C28: at most one interval timer is active, the syncInterval field holds
\* its id, or null (0) when none is active, and no timer is active once
\* onunload has run
C28_OneTimerNoneAfterUnload ==
    /\ Cardinality(timer.active) <= 1
    /\ timer.syncInterval = 0 <=> timer.active = {}
    /\ timer.syncInterval # 0 => timer.active = {timer.syncInterval}
    /\ ~plugin.loaded => timer.active = {}

\* C29: no channel cycle cancels and recreates the interval timer, and no
\* invocation raises the notice of startAutoSync
C29_CycleKeepsSchedule ==
    \A r \in Runs :
        /\ \A i \in 1..Len(settings.channels) : calls[r][i].restarts = 0
        /\ \A k \in 1..Len(notices[r]) :
               ~StartsAt(notices[r][k], 1, "Auto sync enabled")

\* C30: in the channel-document variant, rendering leaves newMessages in
\* the order the request answered it, and the sections appended to an
\* existing document are those a fresh document of the same batch holds,
\* in the same order
C30_RenderingKeepsTheList ==
    \A r \in Runs :
        /\ run[r].pc \in {"exists", "read", "create", "append"} =>
               run[r].newMessages = run[r].received
        /\ run[r].pc = "append" =>
               LET n == Len(run[r].received)
                   updatedContent == run[r].markdown
               IN  SubSeq(updatedContent, Len(updatedContent) - n + 1, Len(updatedContent))
                       = generateMessagesMarkdown(run[r].received)

====
